---- MODULE Spec2Model ----
(***************************************************************************)
(* Model of the untagle backend: the relational store (users, blocks,      *)
(* locations), the presence endpoints and the stale-user sweep, the block  *)
(* endpoints, the location batch endpoint, the direct lookups of a user's  *)
(* location and profile, account deletion, and the nearby-users discovery  *)
(* request of src/src/routes/nearby.ts.                                    *)
(*                                                                         *)
(* Numbers.  Coordinates are integers in micro-degrees (1e-6 degree),      *)
(* radii and distances integers in millimetres (1e-6 km), the rounded      *)
(* distance_km of a result entry an integer in hundredths of a km, and     *)
(* timestamps integers in seconds.  The non-finite doubles are the values  *)
(* of the form [k |-> "inf"], [k |-> "-inf"], [k |-> "nan"].  The          *)
(* coordinate sanitizer works on exact IEEE-754 binary64 values.           *)
(***************************************************************************)
EXTENDS Integers, Sequences, FiniteSets, TLC

VARIABLES users, blocks, locations, now, nearby, held, resp, nops, rank,
          auth, calls, truncation, conversations, participants, messages

vars == <<users, blocks, locations, now, nearby, held, resp, nops, rank,
          auth, calls, truncation, conversations, participants, messages>>

\* the tables of the conversation routes
chat == <<conversations, participants, messages>>

-----------------------------------------------------------------------------
(* Bounds of the model *)

\* The instant at which the model starts; the store already holds rows
\* written before it.
T0 == 1000
\* Seconds the clock may advance after T0.
MaxTicks == 1
\* Requests that write (heartbeat, status, block, unblock, location batch)
\* per behaviour.
MaxOps == 1
\* Rows the locations table may hold.
MaxLocations == 7
\* Candidates handed to the ranking step in SpecRank.
MaxCands == 60

UserIds == {"u1", "u2", "u3"}

-----------------------------------------------------------------------------
(* Doubles *)

Scale == 1000 * 1000

Num(v) == [k |-> "num", v |-> v]
NaN == [k |-> "nan", v |-> 0]
PosInf == [k |-> "inf", v |-> 0]
NegInf == [k |-> "-inf", v |-> 0]

isNaN(x) == x.k = "nan"

\* a < b on doubles: false whenever an operand is NaN
Lt(a, b) ==
    CASE a.k = "nan" \/ b.k = "nan" -> FALSE
      [] a.k = "num" /\ b.k = "num" -> a.v < b.v
      [] a.k = "-inf" -> b.k # "-inf"
      [] a.k = "inf" -> FALSE
      [] OTHER -> b.k = "inf"

Gt(a, b) == Lt(b, a)

\* a <= b on doubles: false whenever an operand is NaN
Le(a, b) ==
    CASE a.k = "nan" \/ b.k = "nan" -> FALSE
      [] OTHER -> a = b \/ Lt(a, b)

-----------------------------------------------------------------------------
(* parseFloat: a string is a sequence of one-character strings *)

Digits == {"0", "1", "2", "3", "4", "5", "6", "7", "8", "9"}

DigitVal(c) ==
    CASE c = "0" -> 0 [] c = "1" -> 1 [] c = "2" -> 2 [] c = "3" -> 3
      [] c = "4" -> 4 [] c = "5" -> 5 [] c = "6" -> 6 [] c = "7" -> 7
      [] c = "8" -> 8 [] c = "9" -> 9

RECURSIVE Pow10(_)
Pow10(n) == IF n = 0 THEN 1 ELSE 10 * Pow10(n - 1)

\* the text without its leading white space
RECURSIVE TrimStart(_)
TrimStart(s) ==
    IF s # <<>> /\ Head(s) = " " THEN TrimStart(Tail(s)) ELSE s

\* the number of leading decimal digits of s
RECURSIVE DigitRun(_)
DigitRun(s) ==
    IF s # <<>> /\ Head(s) \in Digits THEN 1 + DigitRun(Tail(s)) ELSE 0

\* the value of a sequence of digits
RECURSIVE DigitsValue(_)
DigitsValue(s) ==
    IF s = <<>> THEN 0
    ELSE DigitsValue(SubSeq(s, 1, Len(s) - 1)) * 10 + DigitVal(s[Len(s)])

Drop(s, n) == SubSeq(s, n + 1, Len(s))

StartsWith(s, p) == Len(s) >= Len(p) /\ SubSeq(s, 1, Len(p)) = p

InfinityText == <<"I", "n", "f", "i", "n", "i", "t", "y">>

\* The mantissa digits.digits at the head of s, times Scale (decimals beyond
\* the sixth are dropped); <<ok, value, rest>>.
Mantissa(s) ==
    LET ni == DigitRun(s)
        afterInt == Drop(s, ni)
        hasDot == afterInt # <<>> /\ Head(afterInt) = "."
        nf == IF hasDot THEN DigitRun(Tail(afterInt)) ELSE 0
        fracAll == IF hasDot THEN SubSeq(Tail(afterInt), 1, nf) ELSE <<>>
        frac == SubSeq(fracAll, 1, IF nf > 6 THEN 6 ELSE nf)
        ok == ni + nf > 0
        rest == IF hasDot /\ ok THEN Drop(afterInt, 1 + nf) ELSE afterInt
        value == DigitsValue(SubSeq(s, 1, ni)) * Scale
                 + DigitsValue(frac) * Pow10(6 - Len(frac))
    IN  <<ok, value, rest>>

\* The exponent part e[+-]digits at the head of s, 0 when there is none.
Exponent(s) ==
    IF s # <<>> /\ Head(s) \in {"e", "E"}
    THEN LET t == Tail(s)
             signed == t # <<>> /\ Head(t) \in {"+", "-"}
             d == IF signed THEN Tail(t) ELSE t
             n == DigitRun(d)
             e == DigitsValue(SubSeq(d, 1, n))
         IN  IF n = 0 THEN 0
             ELSE IF signed /\ Head(t) = "-" THEN 0 - e ELSE e
    ELSE 0

\* parseFloat(text): the longest prefix of the trimmed text that is a decimal
\* literal, NaN when there is none.
parseFloat(text) ==
    LET s == TrimStart(text)
        signed == s # <<>> /\ Head(s) \in {"+", "-"}
        neg == signed /\ Head(s) = "-"
        body == IF signed THEN Tail(s) ELSE s
        m == Mantissa(body)
        e == Exponent(m[3])
        mag == IF e >= 0 THEN m[2] * Pow10(e) ELSE m[2] \div Pow10(0 - e)
    IN  IF StartsWith(body, InfinityText)
        THEN IF neg THEN NegInf ELSE PosInf
        ELSE IF ~m[1] THEN NaN
        ELSE Num(IF neg THEN 0 - mag ELSE mag)

-----------------------------------------------------------------------------
(* The store *)

\* last_active_at of a user that never reported activity (SQL NULL)
NoTime == 0 - 1

Statuses == {"online", "offline"}

UserRow(status, at) == [presence_status |-> status, last_active_at |-> at]

LocationRow(u, lat, lon, rec, created) ==
    [user_id |-> u, latitude |-> lat, longitude |-> lon,
     recorded_at |-> rec, created_at |-> created]

\* blocks rows are pairs <<blocker_id, blocked_id>>
BlockRow(blocker, blocked) == <<blocker, blocked>>

-----------------------------------------------------------------------------
(* Credentials *)

NoHeader == [present |-> FALSE, scheme |-> "", token |-> ""]
Header(scheme, token) == [present |-> TRUE, scheme |-> scheme, token |-> token]

NoUser == "nobody"

\* the user a token was issued to
TokenUser(token) ==
    CASE token = "tok-u1" -> "u1"
      [] token = "tok-u2" -> "u2"
      [] token = "tok-u3" -> "u3"
      [] OTHER -> NoUser

\* supabaseAdmin.auth.getUser(token): the user the token was issued to, while
\* the auth service holds that user
getUser(token) ==
    IF TokenUser(token) \in auth THEN TokenUser(token) ELSE NoUser

TokenOf(u) ==
    CASE u = "u1" -> "tok-u1" [] u = "u2" -> "tok-u2" [] u = "u3" -> "tok-u3"

\* The two 401 checks every handler starts with; the verified user id, or
\* NoUser when the request is answered 401.
Authenticate(h) ==
    IF ~h.present \/ h.scheme # "Bearer" THEN NoUser ELSE getUser(h.token)

BadHeaders == {NoHeader, Header("Basic", "tok-u1"), Header("Bearer", "expired")}
GoodHeaders == {Header("Bearer", TokenOf(u)) : u \in UserIds}
Headers == BadHeaders \cup GoodHeaders

-----------------------------------------------------------------------------
(* Coordinate sanitizer *)

Abs(x) == IF x < 0 THEN 0 - x ELSE x

(* Numbers of the coordinate sanitizer are IEEE-754 binary64 values, exact: *)
(* [s, m, e] is s * m * 2^e with sign s, a mantissa m of exactly 53 bits   *)
(* held as a list of base-1024 limbs, least significant first, and zero is *)
(* the empty mantissa.  Every operation rounds to nearest, ties to even.   *)

Base == 2^10

RECURSIVE BigOf(_)
\* the limbs of a natural number
BigOf(n) == IF n = 0 THEN <<>> ELSE <<n % Base>> \o BigOf(n \div Base)

RECURSIVE BigToInt(_)
BigToInt(a) == IF a = <<>> THEN 0 ELSE Head(a) + Base * BigToInt(Tail(a))

RECURSIVE BigAddSmall(_, _)
BigAddSmall(a, c) ==
    IF c = 0 THEN a
    ELSE IF a = <<>> THEN BigOf(c)
    ELSE <<(Head(a) + c) % Base>>
           \o BigAddSmall(Tail(a), (Head(a) + c) \div Base)

\* a * k for 0 < k < 2^20
BigMul(a, k) ==
    LET RECURSIVE go(_, _)
        go(x, carry) ==
            IF x = <<>> THEN BigOf(carry)
            ELSE <<(Head(x) * k + carry) % Base>>
                   \o go(Tail(x), (Head(x) * k + carry) \div Base)
    IN  go(a, 0)

RECURSIVE BigDivRem(_, _)
\* quotient and remainder of a by k, 0 < k < 2^20
BigDivRem(a, k) ==
    IF a = <<>> THEN [q |-> <<>>, r |-> 0]
    ELSE LET hi == BigDivRem(Tail(a), k)
             x == hi.r * Base + Head(a)
         IN  [q |-> IF hi.q = <<>> /\ x \div k = 0 THEN <<>>
                    ELSE <<x \div k>> \o hi.q,
              r |-> x % k]

\* the number of bits of a
BigBits(a) ==
    IF a = <<>> THEN 0
    ELSE (Len(a) - 1) * 10
           + (CHOOSE b \in 1..10 : 2^(b - 1) <= a[Len(a)] /\ a[Len(a)] < 2^b)

\* a * 2^s
BigShl(a, s) ==
    IF a = <<>> THEN <<>>
    ELSE [i \in 1..(s \div 10) |-> 0] \o BigMul(a, 2^(s % 10))

\* a \div 2^s
BigShr(a, s) ==
    IF s \div 10 >= Len(a) THEN <<>>
    ELSE BigDivRem(SubSeq(a, s \div 10 + 1, Len(a)), 2^(s % 10)).q

\* bit i of a, bit 0 the least significant
BigBit(a, i) ==
    IF i \div 10 + 1 > Len(a) THEN 0
    ELSE (a[i \div 10 + 1] \div 2^(i % 10)) % 2

\* the bits of a below bit i are all zero
BigLowZero(a, i) ==
    /\ \A j \in 1..Len(a) : j <= i \div 10 => a[j] = 0
    /\ i \div 10 + 1 <= Len(a) => a[i \div 10 + 1] % 2^(i % 10) = 0

BigLess(a, b) ==
    IF Len(a) # Len(b) THEN Len(a) < Len(b)
    ELSE \E i \in 1..Len(a) :
            /\ a[i] < b[i]
            /\ \A j \in (i + 1)..Len(a) : a[j] = b[j]

\* a - b for a >= b
BigSub(a, b) ==
    LET RECURSIVE go(_, _, _)
        go(x, y, borrow) ==
            IF x = <<>> THEN <<>>
            ELSE LET d == Head(x) - (IF y = <<>> THEN 0 ELSE Head(y)) - borrow
                     rest == go(Tail(x), IF y = <<>> THEN <<>> ELSE Tail(y),
                                IF d < 0 THEN 1 ELSE 0)
                     limb == IF d < 0 THEN d + Base ELSE d
                 IN  IF rest = <<>> /\ limb = 0 THEN <<>>
                     ELSE <<limb>> \o rest
    IN  go(a, b, 0)

Binary64(s, m, e) == [s |-> s, m |-> m, e |-> e]

\* the binary64 nearest to s * n * 2^e, ties to even
RoundToBinary64(s, n, e) ==
    LET bits == BigBits(n)
        drop == bits - 53
        q == BigShr(n, drop)
        up == /\ BigBit(n, drop - 1) = 1
              /\ ~BigLowZero(n, drop - 1) \/ BigBit(q, 0) = 1
        r == IF up THEN BigAddSmall(q, 1) ELSE q
    IN  IF n = <<>> THEN Binary64(s, <<>>, 0)
        ELSE IF drop <= 0 THEN Binary64(s, BigShl(n, 0 - drop), e + drop)
        ELSE IF BigBits(r) > 53 THEN Binary64(s, BigShr(r, 1), e + drop + 1)
        ELSE Binary64(s, r, e + drop)

\* n / d as binary64, for naturals n < 2^28 and 0 < d < 2^20: the quotient
\* of n * 2^80 by d with a sticky bit for the remainder, rounded
Quotient(s, n, d) ==
    LET dr == BigDivRem(BigShl(BigOf(n), 80), d)
    IN  RoundToBinary64(s, BigAddSmall(BigMul(dr.q, 2),
                                      IF dr.r = 0 THEN 0 ELSE 1), 0 - 81)

\* x * k as binary64, 0 < k < 2^20
Product(x, k) == RoundToBinary64(x.s, BigMul(x.m, k), x.e)

\* Math.trunc of a binary64 below 2^30 in magnitude: an integer
Trunc(x) ==
    x.s * BigToInt(IF x.e >= 0 THEN BigShl(x.m, x.e)
                   ELSE BigShr(x.m, 0 - x.e))

\* Math.trunc(coord * 10000) / 10000
truncateCoordinate(coord) ==
    LET n == Trunc(Product(coord, 10000))
    IN  Quotient(coord.s, coord.s * n, 10000)

\* the binary64 a JSON body's decimal literal k / 10^6 parses to
FromMicro(k) == Quotient(IF k < 0 THEN 0 - 1 ELSE 1, Abs(k), Scale)

\* the micro-degrees of the multiple of 0.0001 nearest to x, the value the
\* store holds for a sanitized coordinate
ToMicro(x) ==
    LET n == BigMul(x.m, 10000)
    IN  IF x.m = <<>> THEN 0
        ELSE x.s * 100 * (BigToInt(BigShr(n, 0 - x.e))
                            + BigBit(n, 0 - x.e - 1))

\* truncateCoordinate on a coordinate of a body, in micro-degrees
Sanitized(k) == ToMicro(truncateCoordinate(FromMicro(k)))

-----------------------------------------------------------------------------
(* Distance *)

\* R * c for an arc of d micro-degrees, in millimetres:
\* 6371 km * pi / 180 = 111.195 km per degree
ArcMm(d) == d * 111 + (d * 195) \div 1000

\* haversineDistance on doubles.  With a non-finite argument the sines are
\* NaN.  For finite arguments the model covers two points on one meridian
\* (a = sin^2(dLat/2)) and two points on the equator (a = sin^2(dLon/2)),
\* where 2 * atan2(sqrt(a), sqrt(1 - a)) is the angle itself.
haversineDistance(lat1, lon1, lat2, lon2) ==
    IF lat1.k # "num" \/ lon1.k # "num" \/ lat2.k # "num" \/ lon2.k # "num"
    THEN NaN
    ELSE CASE lon1.v = lon2.v -> Num(ArcMm(Abs(lat2.v - lat1.v)))
           [] lat1.v = 0 /\ lat2.v = 0 -> Num(ArcMm(Abs(lon2.v - lon1.v)))

\* Math.round(distance * 100) / 100, in hundredths of a km
RoundKm(distance) == (distance.v + 5000) \div 10000

-----------------------------------------------------------------------------
(* Nearby users: the queries and the computation of src/src/routes/nearby.ts *)

OnlineWindow == 120
LocationWindow == 300
MaxRadiusKm == 5
MaxResults == 50

\* .from('blocks').select().or(blocker_id.eq.id, blocked_id.eq.id)
BlocksQuery(rows, userId) == {b \in rows : b[1] = userId \/ b[2] = userId}

\* a handler that collects only the users the requester blocked
BlockedUserIdsOneWay(data, userId) ==
    IF data = <<>> THEN {}
    ELSE {b[2] : b \in {x \in data[1] : x[1] = userId}}

\* blockedUserIds: the other end of every returned row; data is <<>> when
\* the read returned null
BlockedUserIds(data, userId) ==
    IF data = <<>> THEN {}
    ELSE {IF b[1] = userId THEN b[2] ELSE b[1] : b \in data[1]}

\* a query with .gt in place of .gte
OnlineUsersQueryStrict(table, t, userId) ==
    {u \in DOMAIN table :
        /\ table[u].presence_status = "online"
        /\ table[u].last_active_at # NoTime
        /\ table[u].last_active_at > t - OnlineWindow
        /\ u # userId}

\* .from('users').eq('presence_status','online')
\*   .gte('last_active_at', twoMinutesAgo).neq('id', userId)
OnlineUsersQuery(table, t, userId) ==
    {u \in DOMAIN table :
        /\ table[u].presence_status = "online"
        /\ table[u].last_active_at # NoTime
        /\ table[u].last_active_at >= t - OnlineWindow
        /\ u # userId}

\* .from('locations').in('user_id', userIds).gte('recorded_at', fiveMinutesAgo):
\* the indices of the selected rows
LocationsQuery(table, userIds, t) ==
    {i \in 1..Len(table) :
        /\ table[i].user_id \in userIds
        /\ table[i].recorded_at >= t - LocationWindow}

\* a query that orders the rows by ascending recorded_at
RECURSIVE AscOrders(_, _)
AscOrders(table, idx) ==
    IF idx = {} THEN {<<>>}
    ELSE UNION {
        {<<table[i]>> \o rest : rest \in AscOrders(table, idx \ {i})} :
        i \in {j \in idx :
                 \A k \in idx : table[j].recorded_at <= table[k].recorded_at}}

\* .order('recorded_at', {ascending: false}): the orders in which the store
\* may return the selected rows (rows with equal recorded_at in any order)
RECURSIVE DescOrders(_, _)
DescOrders(table, idx) ==
    IF idx = {} THEN {<<>>}
    ELSE UNION {
        {<<table[i]>> \o rest : rest \in DescOrders(table, idx \ {i})} :
        i \in {j \in idx :
                 \A k \in idx : table[j].recorded_at >= table[k].recorded_at}}

\* userLocations: the first row of each user in the returned order
RECURSIVE UserLocations(_)
UserLocations(rows) ==
    IF rows = <<>> THEN <<>>
    ELSE LET last == rows[Len(rows)]
             m == UserLocations(SubSeq(rows, 1, Len(rows) - 1))
         IN  IF last.user_id \in DOMAIN m THEN m
             ELSE [u \in DOMAIN m \cup {last.user_id} |->
                     IF u = last.user_id
                     THEN [lat |-> Num(last.latitude), lon |-> Num(last.longitude)]
                     ELSE m[u]]

\* a map step that compares the rounded distance with the radius
MapEntryRounded(u, userLocs, latitude, longitude, radiusKm) ==
    IF u \notin DOMAIN userLocs THEN <<>>
    ELSE LET distance == haversineDistance(latitude, longitude,
                                           userLocs[u].lat, userLocs[u].lon)
         IN  IF Le(Num(RoundKm(distance) * 10000), radiusKm)
             THEN <<[id |-> u, distance_km |-> RoundKm(distance)]>>
             ELSE <<>>

\* the map step: the entry of each available user, <<>> standing for null
MapEntry(u, userLocs, latitude, longitude, radiusKm) ==
    IF u \notin DOMAIN userLocs THEN <<>>
    ELSE LET distance == haversineDistance(latitude, longitude,
                                           userLocs[u].lat, userLocs[u].lon)
         IN  IF Le(distance, radiusKm)
             THEN <<[id |-> u, distance_km |-> RoundKm(distance)]>>
             ELSE <<>>

\* .map(...).filter(u => u !== null): the entries that are not null, in the
\* order of the available users
MapFilter(available, userLocs, latitude, longitude, radiusKm) ==
    LET entry(i) == MapEntry(available[i], userLocs, latitude, longitude,
                             radiusKm)
        kept == {i \in 1..Len(available) : entry(i) # <<>>}
        nth(k) == CHOOSE i \in kept :
                      Cardinality({j \in kept : j <= i}) = k
    IN  [k \in 1..Cardinality(kept) |-> entry(nth(k))[1]]

\* a.distance_km - b.distance_km <= 0: a stays before b
InOrder(a, b) == a.distance_km - b.distance_km <= 0

\* Array.prototype.sort is stable: the place of s[i] in the result is the
\* number of entries that end up at or before it, those before it that it
\* does not precede and those behind it that precede it
SortPosition(s, i) ==
    Cardinality({j \in 1..Len(s) :
                    \/ j <= i /\ InOrder(s[j], s[i])
                    \/ j > i /\ ~InOrder(s[i], s[j])})

SortByDistance(s) ==
    [k \in 1..Len(s) |-> s[CHOOSE i \in 1..Len(s) : SortPosition(s, i) = k]]

\* .slice(0, 50)
Slice(s) == SubSeq(s, 1, IF Len(s) < MaxResults THEN Len(s) ELSE MaxResults)

\* a handler that cuts the list before it sorts it
SliceThenSort(entries) == SortByDistance(Slice(entries))

\* .sort(...).slice(0, 50) of the entries within the radius
SortAndCap(entries) == Slice(SortByDistance(entries))

NearbyUsers(available, userLocs, latitude, longitude, radiusKm) ==
    SortAndCap(MapFilter(available, userLocs, latitude, longitude, radiusKm))

\* the orders in which the store may return a set of rows
RECURSIVE Orders(_)
Orders(S) ==
    IF S = {} THEN {<<>>}
    ELSE UNION {{<<x>> \o rest : rest \in Orders(S \ {x})} : x \in S}

\* onlineUsers.filter(u => !blockedUserIds.has(u.id))
RECURSIVE AvailableUsers(_, _)
AvailableUsers(online, blocked) ==
    IF online = <<>> THEN <<>>
    ELSE (IF Head(online) \in blocked THEN <<>> ELSE <<Head(online)>>)
         \o AvailableUsers(Tail(online), blocked)

-----------------------------------------------------------------------------
(* Requests of GET /api/users/nearby *)

\* A query parameter: the text the client sent, and the number that text
\* denotes when the whole of it is a numeral (NaN when it is none).  The
\* handler reads given and text only.
Param(text, means) == [given |-> TRUE, text |-> text, means |-> means]
Missing == [given |-> FALSE, text |-> <<>>, means |-> NaN]

Zero == Param(<<"0">>, Num(0))
One == Param(<<"1">>, Num(Scale))

LatParams ==
    {Zero,
     Missing,
     Param(InfinityText, PosInf),
     Param(<<"0", "a", "b", "c">>, NaN),
     Param(<<"n", "o", "r", "t", "h">>, NaN)}

LonParams ==
    {Zero,
     Param(<<"0", ".", "0", "0", "1">>, Num(1000)),
     Param(<<>>, NaN),
     Param(<<"-", "I", "n", "f", "i", "n", "i", "t", "y">>, NegInf),
     Param(<<"N", "a", "N">>, NaN)}

RadiusParams ==
    {Param(<<"0">>, Num(0)),
     Param(<<"1">>, Num(Scale)),
     Param(<<"0", ".", "1", "1">>, Num(110000)),
     Param(<<"5">>, Num(5 * Scale)),
     Param(<<"5", ".", "0", "1">>, Num(5010000)),
     Param(<<"-", "1">>, Num(0 - Scale)),
     Param(InfinityText, PosInf),
     Param(<<"-", "I", "n", "f", "i", "n", "i", "t", "y">>, NegInf),
     Param(<<"1", "k", "m">>, NaN),
     Param(<<"f", "a", "r">>, NaN),
     Missing}

Query(lat, lon, radius) == [lat |-> lat, lon |-> lon, radius |-> radius]

\* The queries sent: every parameter varied on its own, and two queries
\* that are wrong in two ways.
Queries ==
    {Query(Zero, Zero, r) : r \in RadiusParams}
    \cup {Query(lat, Zero, One) : lat \in LatParams}
    \cup {Query(Zero, lon, One) : lon \in LonParams}
    \cup {Query(Param(<<"n", "o", "r", "t", "h">>, NaN), Zero,
                Param(<<"5", ".", "0", "1">>, Num(5010000))),
          Query(Missing, Zero, Param(<<"-", "1">>, Num(0 - Scale)))}

NearbyRequest(h, q) == [header |-> h, query |-> q]

Bearer(u) == Header("Bearer", TokenOf(u))

Tenth == Param(<<"0", ".", "0", "0", "1">>, Num(1000))
Five == Param(<<"5">>, Num(5 * Scale))
TooFar == Param(<<"5", ".", "0", "1">>, Num(5010000))

\* The requests sent against the changing store: queries that pass the
\* preconditions, and one rejected request of each class.
DiscoveryRequests ==
    {NearbyRequest(Bearer("u1"), q) :
       q \in {Query(Zero, Zero, Zero), Query(Zero, Zero, One),
              Query(Zero, Zero, Param(<<"0", ".", "1", "1">>, Num(110000))),
              Query(Zero, Zero, Five), Query(Zero, Tenth, One),
              Query(Param(InfinityText, PosInf), Zero, One)}}
    \cup {NearbyRequest(Bearer(u), q) :
            u \in {"u2", "u3"}, q \in {Query(Zero, Zero, Zero), Query(Zero, Zero, Five)}}
    \cup {NearbyRequest(NoHeader, Query(Zero, Zero, One)),
          NearbyRequest(Bearer("u1"), Query(Zero, Missing, One)),
          NearbyRequest(Bearer("u1"), Query(Zero, Zero, TooFar))}

\* The requests of SpecQuery: every query by every user, and requests
\* without a valid credential.
NearbyRequests ==
    {NearbyRequest(h, q) : h \in GoodHeaders, q \in Queries}
    \cup {NearbyRequest(h, q) : h \in BadHeaders,
          q \in {Query(Zero, Zero, One), Query(Zero, Zero, TooFar),
                 Query(Missing, Zero, One)}}

\* the texts of the parameters sent, parsed once
ParamTexts ==
    {p.text : p \in LatParams \cup LonParams \cup RadiusParams}
Parsed == [t \in ParamTexts |-> parseFloat(t)] @@ <<>>

\* !lat: the parameter is absent or the empty string
Falsy(p) == ~p.given \/ p.text = <<>>

\* a range check that turns the two ends of the range away
RadiusOutOfRangeStrict(radiusKm) ==
    ~Gt(radiusKm, Num(0)) \/ ~Lt(radiusKm, Num(MaxRadiusKm * Scale))

\* radiusKm < 0 || radiusKm > 5
RadiusOutOfRange(radiusKm) ==
    Lt(radiusKm, Num(0)) \/ Gt(radiusKm, Num(MaxRadiusKm * Scale))

Rejection(code, error) == [code |-> code, error |-> error]

\* The preconditions of the handler, in the order of the code: the
\* rejection, with code 0 when the request passes them all.
Precondition(req) ==
    LET q == req.query
    IN  IF ~req.header.present \/ req.header.scheme # "Bearer"
        THEN Rejection(401, "Missing or invalid authorization header")
        ELSE IF getUser(req.header.token) = NoUser
        THEN Rejection(401, "Unauthorized")
        ELSE IF Falsy(q.lat) \/ Falsy(q.lon) \/ Falsy(q.radius)
        THEN Rejection(400, "Missing required query params: lat, lon, radius")
        ELSE IF \/ isNaN(Parsed[q.lat.text])
                \/ isNaN(Parsed[q.lon.text])
                \/ isNaN(Parsed[q.radius.text])
        THEN Rejection(400, "Invalid lat, lon, or radius")
        ELSE IF RadiusOutOfRange(Parsed[q.radius.text])
        THEN Rejection(400, "Radius must be between 0 and 5 km")
        ELSE Rejection(0, "")

-----------------------------------------------------------------------------
(* The nearby request in flight, and the responses *)

NoTable == <<>>

\* What a request has seen of the store, kept to state the properties:
\* the tables at the moment of each read and the clock of the read.
NothingSeen ==
    [blocks |-> {}, users |-> NoTable, tUsers |-> 0, online |-> {},
     locations |-> <<>>, tLocations |-> 0, userLocations |-> NoTable]

Idle ==
    [pc |-> "idle", req |-> NearbyRequest(NoHeader, Query(Missing, Missing, Missing)),
     userId |-> NoUser, latitude |-> NaN, longitude |-> NaN, radiusKm |-> NaN,
     blockedUserIds |-> {}, availableUsers |-> <<>>,
     reads |-> <<>>, failed |-> {}, seen |-> NothingSeen]

NoResponse == [op |-> "none", code |-> 0]

\* reply.code(code).send({error}) or reply.send({users})
NearbyResponse(n, code, error, listed, list, heldSet) ==
    [op |-> "nearby", code |-> code, error |-> error, listed |-> listed,
     users |-> list, req |-> n.req, userId |-> n.userId,
     latitude |-> n.latitude, longitude |-> n.longitude, radiusKm |-> n.radiusKm,
     blockedUserIds |-> n.blockedUserIds, availableUsers |-> n.availableUsers,
     reads |-> n.reads, failed |-> n.failed, seen |-> n.seen, held |-> heldSet]

\* the users at the other end of a block row of u, in either direction
Partners(u, rows) ==
    {v \in UserIds : BlockRow(u, v) \in rows \/ BlockRow(v, u) \in rows}

-----------------------------------------------------------------------------
(* GET /api/users/nearby, one action per await of the handler *)

store == <<users, blocks, locations>>

\* The users that had a block row with the requester in every state since
\* the request began.
HeldNext ==
    IF nearby'.pc = "idle" THEN {}
    ELSE IF nearby.pc = "idle" THEN Partners(nearby'.userId, blocks')
    ELSE held \cap Partners(nearby.userId, blocks')

\* Authentication and validation; a request that passes goes on to read
\* the blocks.  resp holds the answer to the latest request, none while
\* that request is in flight.
NearbyStart(req) ==
    /\ nearby.pc = "idle"
    /\ LET pre == Precondition(req)
           q == req.query
           started == [Idle EXCEPT !.req = req]
       IN  IF pre.code # 0
           THEN /\ resp' = NearbyResponse(started, pre.code, pre.error,
                                          FALSE, <<>>, {})
                /\ UNCHANGED nearby
           ELSE /\ nearby' = [started EXCEPT
                                !.pc = "blocks",
                                !.userId = getUser(req.header.token),
                                !.latitude = Parsed[q.lat.text],
                                !.longitude = Parsed[q.lon.text],
                                !.radiusKm = Parsed[q.radius.text]]
                /\ resp' = NoResponse
    /\ UNCHANGED <<store, now, nops, rank, auth, calls, truncation, chat>>
    /\ held' = HeldNext

\* The blocks read; its error is not looked at.
NearbyReadBlocks(ok) ==
    /\ nearby.pc = "blocks"
    /\ LET data == IF ok THEN <<BlocksQuery(blocks, nearby.userId)>> ELSE <<>>
       IN  nearby' = [nearby EXCEPT
                        !.pc = "users",
                        !.blockedUserIds = BlockedUserIds(data, nearby.userId),
                        !.reads = Append(@, "blocks"),
                        !.failed = IF ok THEN @ ELSE @ \cup {"blocks"},
                        !.seen.blocks = blocks]
    /\ UNCHANGED <<store, now, resp, nops, rank, auth, calls, truncation, chat>>
    /\ held' = HeldNext

\* The users read and the block filter.
NearbyReadUsers(ok) ==
    /\ nearby.pc = "users"
    /\ \E onlineUsers \in Orders(OnlineUsersQuery(users, now, nearby.userId)) :
        LET read == [nearby EXCEPT
                       !.reads = Append(@, "users"),
                       !.failed = IF ok THEN @ ELSE @ \cup {"users"},
                       !.seen.users = users,
                       !.seen.tUsers = now]
            availableUsers == AvailableUsers(onlineUsers, nearby.blockedUserIds)
            found == [read EXCEPT
                        !.seen.online = {onlineUsers[i] : i \in 1..Len(onlineUsers)},
                        !.availableUsers = availableUsers]
        IN  IF ~ok
            THEN /\ resp' = NearbyResponse(read, 500, "Failed to fetch users",
                                           FALSE, <<>>, held)
                 /\ nearby' = Idle
            ELSE IF Len(onlineUsers) = 0 \/ Len(availableUsers) = 0
            THEN /\ resp' = NearbyResponse(found, 200, "", TRUE, <<>>, held)
                 /\ nearby' = Idle
            ELSE /\ nearby' = [found EXCEPT !.pc = "locations"]
                 /\ UNCHANGED resp
    /\ UNCHANGED <<store, now, nops, rank, auth, calls, truncation, chat>>
    /\ held' = HeldNext

\* The locations read, the distances, the sort and the cap.
NearbyReadLocations(ok) ==
    /\ nearby.pc = "locations"
    /\ LET userIds == {nearby.availableUsers[i] :
                         i \in 1..Len(nearby.availableUsers)}
           read == [nearby EXCEPT
                      !.reads = Append(@, "locations"),
                      !.failed = IF ok THEN @ ELSE @ \cup {"locations"},
                      !.seen.locations = locations,
                      !.seen.tLocations = now]
       IN  \E rows \in DescOrders(locations,
                                  LocationsQuery(locations, userIds, now)) :
             LET userLocations == UserLocations(rows)
                 done == [read EXCEPT !.seen.userLocations = userLocations]
                 nearbyUsers == NearbyUsers(nearby.availableUsers, userLocations,
                                            nearby.latitude, nearby.longitude,
                                            nearby.radiusKm)
             IN  IF ~ok
                 THEN resp' = NearbyResponse(read, 500, "Failed to fetch locations",
                                             FALSE, <<>>, held)
                 ELSE resp' = NearbyResponse(done, 200, "", TRUE, nearbyUsers, held)
    /\ nearby' = Idle
    /\ UNCHANGED <<store, now, nops, rank, auth, calls, truncation, chat>>
    /\ held' = HeldNext

-----------------------------------------------------------------------------
(* POST /presence/heartbeat *)

\* presenceStatus of a body that carries none
NoStatus == ""

HeartbeatResponse(code, error, h, userId, presenceStatus) ==
    [op |-> "heartbeat", code |-> code, error |-> error, at |-> now,
     header |-> h, userId |-> userId, presenceStatus |-> presenceStatus]

\* an update that writes "online" when the body carries no status
HeartbeatUpdateOnline(row, presenceStatus, t) ==
    [row EXCEPT !.last_active_at = t,
                !.presence_status = IF presenceStatus # NoStatus
                                    THEN presenceStatus ELSE "online"]

\* updateData of the handler
HeartbeatUpdate(row, presenceStatus, t) ==
    [row EXCEPT !.last_active_at = t,
                !.presence_status = IF presenceStatus # NoStatus
                                    THEN presenceStatus ELSE @]

\* .from('users').update(updateData).eq('id', userId)
UpdateUser(table, userId, presenceStatus, t) ==
    [u \in DOMAIN table |->
        IF u = userId THEN HeartbeatUpdate(table[u], presenceStatus, t)
        ELSE table[u]]

Heartbeat(h, userId, presenceStatus, ok) ==
    LET verified == Authenticate(h)
        answer(code, error) ==
            resp' = HeartbeatResponse(code, error, h, userId, presenceStatus)
    IN  /\ nops < MaxOps
        /\ nops' = nops + 1
        /\ IF verified = NoUser
           THEN /\ answer(401, IF ~h.present \/ h.scheme # "Bearer"
                               THEN "Unauthorized" ELSE "Invalid token")
                /\ UNCHANGED users
           ELSE IF userId # verified
           THEN /\ answer(403, "Forbidden")
                /\ UNCHANGED users
           ELSE /\ IF ok
                   THEN /\ users' = UpdateUser(users, userId, presenceStatus, now)
                        /\ answer(200, "")
                   ELSE /\ answer(500, "Failed to update presence")
                        /\ UNCHANGED users
        /\ UNCHANGED <<blocks, locations, now, nearby, rank, auth, calls, truncation, chat>>
        /\ held' = HeldNext

-----------------------------------------------------------------------------
(* POST /blocks and DELETE /blocks/:blockedUserId *)

BlockResponse(op, code, error, h, blockedUserId) ==
    [op |-> op, code |-> code, error |-> error, at |-> now,
     header |-> h, blockedUserId |-> blockedUserId]

NoId == ""

\* a handler without the comparison of blockedUserId with the caller's id
BlockAnyone(h, blockedUserId, okRead, okInsert) ==
    LET verified == Authenticate(h)
        existing == okRead /\ BlockRow(verified, blockedUserId) \in blocks
        answer(code, error) ==
            resp' = BlockResponse("block", code, error, h, blockedUserId)
    IN  /\ nops < MaxOps
        /\ nops' = nops + 1
        /\ IF verified = NoUser
           THEN /\ answer(401, IF ~h.present \/ h.scheme # "Bearer"
                               THEN "Unauthorized" ELSE "Invalid token")
                /\ UNCHANGED blocks
           ELSE IF blockedUserId = NoId
           THEN /\ answer(400, "Blocked user ID is required")
                /\ UNCHANGED blocks
           ELSE IF existing
           THEN /\ answer(400, "User is already blocked")
                /\ UNCHANGED blocks
           ELSE /\ IF okInsert
                   THEN /\ blocks' = blocks \cup {BlockRow(verified, blockedUserId)}
                        /\ answer(200, "")
                   ELSE /\ answer(500, "Failed to block user")
                        /\ UNCHANGED blocks
        /\ UNCHANGED <<users, locations, now, nearby, rank, auth, calls, truncation, chat>>
        /\ held' = HeldNext

Block(h, blockedUserId, okRead, okInsert) ==
    LET verified == Authenticate(h)
        existing == okRead /\ BlockRow(verified, blockedUserId) \in blocks
        answer(code, error) ==
            resp' = BlockResponse("block", code, error, h, blockedUserId)
    IN  /\ nops < MaxOps
        /\ nops' = nops + 1
        /\ IF verified = NoUser
           THEN /\ answer(401, IF ~h.present \/ h.scheme # "Bearer"
                               THEN "Unauthorized" ELSE "Invalid token")
                /\ UNCHANGED blocks
           ELSE IF blockedUserId = NoId
           THEN /\ answer(400, "Blocked user ID is required")
                /\ UNCHANGED blocks
           ELSE IF blockedUserId = verified
           THEN /\ answer(400, "Cannot block yourself")
                /\ UNCHANGED blocks
           ELSE IF existing
           THEN /\ answer(400, "User is already blocked")
                /\ UNCHANGED blocks
           ELSE /\ IF okInsert
                   THEN /\ blocks' = blocks \cup {BlockRow(verified, blockedUserId)}
                        /\ answer(200, "")
                   ELSE /\ answer(500, "Failed to block user")
                        /\ UNCHANGED blocks
        /\ UNCHANGED <<users, locations, now, nearby, rank, auth, calls, truncation, chat>>
        /\ held' = HeldNext

Unblock(h, blockedUserId, ok) ==
    LET verified == Authenticate(h)
        answer(code, error) ==
            resp' = BlockResponse("unblock", code, error, h, blockedUserId)
    IN  /\ nops < MaxOps
        /\ nops' = nops + 1
        /\ IF verified = NoUser
           THEN /\ answer(401, IF ~h.present \/ h.scheme # "Bearer"
                               THEN "Unauthorized" ELSE "Invalid token")
                /\ UNCHANGED blocks
           ELSE /\ IF ok
                   THEN /\ blocks' = blocks \ {BlockRow(verified, blockedUserId)}
                        /\ answer(200, "")
                   ELSE /\ answer(500, "Failed to unblock user")
                        /\ UNCHANGED blocks
        /\ UNCHANGED <<users, locations, now, nearby, rank, auth, calls, truncation, chat>>
        /\ held' = HeldNext

-----------------------------------------------------------------------------
(* POST /locations/batch *)

LocationData(latitude, longitude, recordedAt) ==
    [latitude |-> latitude, longitude |-> longitude, recordedAt |-> recordedAt]

\* the locations field of a body: an array of fixes, or something else
\* holes: the indices whose element is null, with a placeholder in items
ArrayWithHoles(items, holes) ==
    [isArray |-> TRUE, items |-> items, holes |-> holes]
Array(items) == ArrayWithHoles(items, {})
NotAnArray == [isArray |-> FALSE, items |-> <<>>, holes |-> {}]

BatchResponse(code, error, h, userId, locs, inserted) ==
    [op |-> "batch", code |-> code, error |-> error, at |-> now,
     header |-> h, userId |-> userId, locations |-> locs, inserted |-> inserted]

\* rows that carry the coordinates as submitted
ProcessedLocationsRaw(userId, locs, t) ==
    [i \in 1..Len(locs.items) |->
        LocationRow(userId, locs.items[i].latitude, locs.items[i].longitude,
                    locs.items[i].recordedAt, t)]

\* processedLocations
ProcessedLocations(userId, locs, t) ==
    [i \in 1..Len(locs.items) |->
        LocationRow(userId, Sanitized(locs.items[i].latitude),
                    Sanitized(locs.items[i].longitude),
                    locs.items[i].recordedAt, t)]

\* a handler that looks at the locations field before the userId
LocationBatchValidatesFirst(h, userId, locs, okUser, okInsert) ==
    LET verified == Authenticate(h)
        answer(code, error, inserted) ==
            resp' = BatchResponse(code, error, h, userId, locs, inserted)
    IN  /\ nops < MaxOps
        /\ nops' = nops + 1
        /\ Len(locations) + Len(locs.items) <= MaxLocations
        /\ IF verified = NoUser
           THEN /\ answer(401, IF ~h.present \/ h.scheme # "Bearer"
                               THEN "Unauthorized" ELSE "Invalid token", 0)
                /\ UNCHANGED locations
           ELSE IF ~locs.isArray \/ Len(locs.items) = 0
           THEN /\ answer(400, "Invalid locations data", 0)
                /\ UNCHANGED locations
           ELSE IF userId # verified
           THEN /\ answer(403, "Forbidden", 0)
                /\ UNCHANGED locations
           ELSE IF ~okUser
           THEN /\ answer(500, "Failed to verify user", 0)
                /\ UNCHANGED locations
           ELSE IF userId \notin DOMAIN users
           THEN /\ answer(404, "User not found", 0)
                /\ UNCHANGED locations
           ELSE IF locs.holes # {}
           THEN /\ answer(500, "Internal server error", 0)
                /\ UNCHANGED locations
           ELSE IF okInsert
           THEN /\ locations' = locations \o ProcessedLocations(userId, locs, now)
                /\ answer(200, "", Len(locs.items))
           ELSE /\ answer(500, "Failed to save locations", 0)
                /\ UNCHANGED locations
        /\ UNCHANGED <<users, blocks, now, nearby, rank, auth, calls, truncation, chat>>
        /\ held' = HeldNext

LocationBatch(h, userId, locs, okUser, okInsert) ==
    LET verified == Authenticate(h)
        answer(code, error, inserted) ==
            resp' = BatchResponse(code, error, h, userId, locs, inserted)
    IN  /\ nops < MaxOps
        /\ nops' = nops + 1
        /\ Len(locations) + Len(locs.items) <= MaxLocations
        /\ IF verified = NoUser
           THEN /\ answer(401, IF ~h.present \/ h.scheme # "Bearer"
                               THEN "Unauthorized" ELSE "Invalid token", 0)
                /\ UNCHANGED locations
           ELSE IF userId # verified
           THEN /\ answer(403, "Forbidden", 0)
                /\ UNCHANGED locations
           ELSE IF ~locs.isArray \/ Len(locs.items) = 0
           THEN /\ answer(400, "Invalid locations data", 0)
                /\ UNCHANGED locations
           ELSE IF ~okUser
           THEN /\ answer(500, "Failed to verify user", 0)
                /\ UNCHANGED locations
           ELSE IF userId \notin DOMAIN users
           THEN /\ answer(404, "User not found", 0)
                /\ UNCHANGED locations
           ELSE IF locs.holes # {}
           THEN /\ answer(500, "Internal server error", 0)
                /\ UNCHANGED locations
           ELSE IF okInsert
           THEN /\ locations' = locations \o ProcessedLocations(userId, locs, now)
                /\ answer(200, "", Len(locs.items))
           ELSE /\ answer(500, "Failed to save locations", 0)
                /\ UNCHANGED locations
        /\ UNCHANGED <<users, blocks, now, nearby, rank, auth, calls, truncation, chat>>
        /\ held' = HeldNext

-----------------------------------------------------------------------------
(* The clock *)

Tick ==
    /\ now < T0 + MaxTicks
    /\ now' = now + 1
    /\ UNCHANGED <<store, nearby, resp, nops, rank, auth, calls, truncation, chat>>
    /\ held' = HeldNext

-----------------------------------------------------------------------------
(* The initial store and the requests sent *)

\* The store at T0, as earlier heartbeats, status changes and location
\* batches left it: u1 and u2 went online two minutes ago, one second apart;
\* u3 is online, went offline, or never reported activity.
InitUsers ==
    {[u \in UserIds |->
        CASE u = "u1" -> UserRow("online", T0 - 119)
          [] u = "u2" -> UserRow("online", T0 - 120)
          [] OTHER -> r] :
     r \in {UserRow("online", T0 - 50), UserRow("offline", T0 - 50),
            UserRow("online", NoTime)}}

\* u2 reported a fix 0.11 km east of the origin five minutes ago and an older
\* one; u3 a fix at the origin and a later one 4.99 km east; u1 a fix at the
\* origin.
InitLocations ==
    <<LocationRow("u2", 0, 1000, T0 - 300, T0 - 300),
      LocationRow("u2", 0, 0, T0 - 301, T0 - 301),
      LocationRow("u3", 0, 0, T0 - 200, T0 - 200),
      LocationRow("u3", 0, 44900, T0 - 10, T0 - 10),
      LocationRow("u1", 0, 0, T0 - 5, T0 - 5)>>

\* u3 has blocked u1.
InitBlocks == {BlockRow("u3", "u1")}

Fixes ==
    {LocationData(0, 1000, T0 - 10),
     LocationData(0, 45099, T0),
     LocationData(0, 0 - 1099, T0 - 301)}

Batches ==
    {Array(<<f>>) : f \in Fixes}
    \cup {Array(<<LocationData(0, 1000, T0 - 10), LocationData(0, 45099, T0)>>),
          Array(<<>>), NotAnArray}

PresenceInputs == {NoStatus, "online", "offline"}

HeartbeatRequest(h, userId, presenceStatus, ok) ==
    [header |-> h, userId |-> userId, presenceStatus |-> presenceStatus, ok |-> ok]

\* Heartbeats for the caller's own id with every status, one that the store
\* fails, heartbeats for somebody else's id, and an unauthenticated one.
HeartbeatRequests ==
    {HeartbeatRequest(Bearer(u), u, st, TRUE) :
       u \in {"u2", "u3"}, st \in PresenceInputs}
    \cup {HeartbeatRequest(Bearer("u1"), "u1", "offline", FALSE),
          HeartbeatRequest(Bearer("u1"), "u2", "offline", TRUE),
          HeartbeatRequest(Bearer("u2"), "u1", NoStatus, TRUE),
          HeartbeatRequest(Header("Bearer", "expired"), "u1", "offline", TRUE)}

BlockRequest(h, blockedUserId, okRead, okWrite) ==
    [header |-> h, blockedUserId |-> blockedUserId, okRead |-> okRead,
     okWrite |-> okWrite]

BlockRequests ==
    {BlockRequest(Bearer("u1"), v, TRUE, TRUE) : v \in UserIds \cup {NoId}}
    \cup {BlockRequest(Bearer("u2"), "u1", TRUE, TRUE),
          BlockRequest(Bearer("u3"), "u1", TRUE, TRUE),
          BlockRequest(Bearer("u1"), "u2", TRUE, FALSE),
          BlockRequest(Bearer("u3"), "u1", FALSE, TRUE),
          BlockRequest(NoHeader, "u1", TRUE, TRUE)}

UnblockRequests ==
    {BlockRequest(Bearer("u3"), "u1", TRUE, TRUE),
     BlockRequest(Bearer("u1"), "u3", TRUE, TRUE),
     BlockRequest(Bearer("u3"), "u1", TRUE, FALSE),
     BlockRequest(NoHeader, "u1", TRUE, TRUE)}

BatchRequest(h, userId, locs, okUser, okInsert) ==
    [header |-> h, userId |-> userId, locations |-> locs, okUser |-> okUser,
     okInsert |-> okInsert]

Near == LocationData(0, 1000, T0 - 10)

BatchRequests ==
    {BatchRequest(Bearer("u3"), "u3", b, TRUE, TRUE) : b \in Batches}
    \cup {BatchRequest(Bearer("u2"), "u2", Array(<<Near>>), TRUE, TRUE),
          BatchRequest(Bearer("u1"), "u2", Array(<<Near>>), TRUE, TRUE),
          BatchRequest(Bearer("u2"), "u2", Array(<<Near>>), FALSE, TRUE),
          BatchRequest(Bearer("u2"), "u2", Array(<<Near>>), TRUE, FALSE),
          BatchRequest(NoHeader, "u1", Array(<<Near>>), TRUE, TRUE)}

\* rank is used by SpecRank alone
NoRank == [stage |-> "none"]

\* no sweep, direct lookup, account deletion, stepwise batch, send or
\* termination is running
NoCall == [pc |-> "idle"]
NoCalls ==
    [sweep |-> NoCall, lookup |-> NoCall, deletion |-> NoCall, batch |-> NoCall,
     send |-> NoCall, terminate |-> NoCall]

\* truncation is used by SpecTruncate alone
NoTruncation == [stage |-> "none"]

\* no conversation has been created; the deletes of the account deletion on
\* messages and conversation_participants find no row
NoChat ==
    /\ conversations = <<>>
    /\ participants = {}
    /\ messages = <<>>

Init ==
    /\ users \in InitUsers
    /\ blocks = InitBlocks
    /\ locations = InitLocations
    /\ now = T0
    /\ nearby = Idle
    /\ held = {}
    /\ resp = NoResponse
    /\ nops = 0
    /\ rank = NoRank
    /\ auth = UserIds
    /\ calls = NoCalls
    /\ truncation = NoTruncation
    /\ NoChat

Next ==
    \/ \E req \in DiscoveryRequests : NearbyStart(req)
    \/ \E ok \in BOOLEAN : NearbyReadBlocks(ok)
    \/ \E ok \in BOOLEAN : NearbyReadUsers(ok)
    \/ \E ok \in BOOLEAN : NearbyReadLocations(ok)
    \/ \E r \in HeartbeatRequests :
          Heartbeat(r.header, r.userId, r.presenceStatus, r.ok)
    \/ \E r \in BlockRequests :
          Block(r.header, r.blockedUserId, r.okRead, r.okWrite)
    \/ \E r \in UnblockRequests : Unblock(r.header, r.blockedUserId, r.okWrite)
    \/ \E r \in BatchRequests :
          LocationBatch(r.header, r.userId, r.locations, r.okUser, r.okInsert)
    \/ Tick


Spec == Init /\ [][Next]_vars

-----------------------------------------------------------------------------
(* The request alone: every query of NearbyRequests against the initial    *)
(* store, with no other request in between                                 *)

NextQuery ==
    \/ \E req \in NearbyRequests : NearbyStart(req)
    \/ \E ok \in BOOLEAN : NearbyReadBlocks(ok)
    \/ \E ok \in BOOLEAN : NearbyReadUsers(ok)
    \/ \E ok \in BOOLEAN : NearbyReadLocations(ok)
    \/ Tick

SpecQuery == Init /\ [][NextQuery]_vars

-----------------------------------------------------------------------------
(* The distance filter, the sort and the cap on long candidate lists:      *)
(* candidates 1..n on the equator, the requester at the origin             *)

RankPatterns == {"ascending", "descending", "ties", "far", "mixed"}

\* the longitude of candidate i of n, in micro-degrees
RankLongitude(pattern, i, n) ==
    CASE pattern = "ascending" -> i * 700
      [] pattern = "descending" -> (n + 1 - i) * 700
      [] pattern = "ties" -> (i % 7) * 700
      [] pattern = "far" -> i * 1500
      [] OTHER -> ((i * 37) % 64) * 700

RankInput(pattern, n) ==
    [stage |-> "input", pattern |-> pattern,
     availableUsers |-> [i \in 1..n |-> i],
     userLocations |-> [i \in 1..n |->
                          [lat |-> Num(0),
                           lon |-> Num(RankLongitude(pattern, i, n))]],
     radiusKm |-> Num(MaxRadiusKm * Scale),
     users |-> <<>>]

InitRank ==
    /\ users \in InitUsers
    /\ blocks = InitBlocks
    /\ locations = InitLocations
    /\ now = T0
    /\ nearby = Idle
    /\ held = {}
    /\ resp = NoResponse
    /\ nops = 0
    /\ \E pattern \in RankPatterns, n \in 0..MaxCands :
          rank = RankInput(pattern, n)
    /\ auth = UserIds
    /\ calls = NoCalls
    /\ truncation = NoTruncation
    /\ NoChat

\* the map, filter, sort and slice of the handler on the input
Rank ==
    /\ rank.stage = "input"
    /\ rank' = [rank EXCEPT
                  !.stage = "output",
                  !.users = NearbyUsers(rank.availableUsers, rank.userLocations,
                                        Num(0), Num(0), rank.radiusKm)]
    /\ UNCHANGED <<store, now, nearby, held, resp, nops, auth, calls, truncation, chat>>

NextRank == Rank

SpecRank == InitRank /\ [][NextRank]_vars

-----------------------------------------------------------------------------
(* Properties of the nearby request *)

\* the answer to a nearby request that got as far as a user list
Listed == resp.op = "nearby" /\ resp.listed

Returned == {resp.users[i].id : i \in 1..Len(resp.users)}

\* C1: visibility symmetry.  A user that had a block row with the requester,
\* in either direction, in every state from the start of the request to its
\* answer is not in the list the request returns when its reads succeed.
C1_BlockedPairInvisible ==
    (Listed /\ resp.failed = {}) => Returned \cap resp.held = {}

\* C1 witness: the requester was blocked by a user who was online and fresh
\* at the presence read, and the list holds somebody else.
C1_Witness ==
    /\ Listed /\ resp.failed = {}
    /\ Len(resp.users) > 0
    /\ \E b \in resp.held :
          /\ b \in resp.seen.online
          /\ BlockRow(b, resp.userId) \in resp.seen.blocks

\* C2: no store failure is swallowed.  A nearby request one of whose reads
\* failed is answered 500 and returns no user list.
C2_NoSwallowedFailure ==
    (resp.op = "nearby" /\ resp.failed # {}) => (resp.code = 500 /\ ~resp.listed)

\* the request carries a credential of a user
Authenticated(req) == Authenticate(req.header) # NoUser

\* the parameter is present and the whole of its text is a finite numeral
Finite(p) == p.given /\ p.means.k = "num"

\* the parameter is present and the whole of its text is a numeral
Numeral(p) == p.given /\ p.means.k # "nan"

\* the number the radius text denotes is below 0 or above 5 km
OutsideZeroToFive(p) == Lt(p.means, Num(0)) \/ Gt(p.means, Num(5 * Scale))

\* C3: radius bound.  An authenticated request with numeric latitude and
\* longitude is answered 400 exactly when its radius is below 0 or above 5 km
\* (0 and 5 pass, -1 and 5.01 do not), and a request answered 400 has read
\* nothing from the store.
C3_RadiusBound ==
    resp.op = "nearby" =>
        LET q == resp.req.query
        IN  /\ (Authenticated(resp.req) /\ Numeral(q.lat) /\ Numeral(q.lon)
                  /\ Numeral(q.radius))
                => (resp.code = 400 <=> OutsideZeroToFive(q.radius))
            /\ resp.code = 400 => resp.reads = <<>>

\* C3 witness: a radius of exactly 5 km was accepted and the request went on
\* to read the store and list a user.
C3_Witness ==
    /\ Listed
    /\ resp.req.query.radius.means = Num(5 * Scale)
    /\ Finite(resp.req.query.lat) /\ Finite(resp.req.query.lon)
    /\ Len(resp.reads) = 3
    /\ Len(resp.users) > 0

\* C4: an authenticated request one of whose parameters is not a finite
\* number (Infinity, -Infinity and texts with trailing non-numeric characters
\* included) is answered 400 and reads nothing from the store.  Stated of
\* the requests none of whose reads failed.
C4_NonFiniteRejected ==
    (resp.op = "nearby" /\ resp.failed = {}) =>
        LET q == resp.req.query
        IN  (Authenticated(resp.req)
               /\ ~(Finite(q.lat) /\ Finite(q.lon) /\ Finite(q.radius)))
            => (resp.code = 400 /\ resp.reads = <<>>)

\* the parameter is absent, empty, or its text is not a numeral
NonNumeric(p) == ~p.given \/ p.text = <<>> \/ p.means.k = "nan"

RadiusError == "Radius must be between 0 and 5 km"

\* C9: precondition order.  A request without a valid credential is answered
\* 401 whatever its parameters; an authenticated request with a missing or
\* non-numeric parameter is answered 400 by the parameter checks, not by the
\* range check; and the store is read only by requests that are
\* authenticated, numeric and within the range.
C9_PreconditionOrder ==
    /\ resp.op = "nearby" =>
         LET q == resp.req.query
             nonNumeric == NonNumeric(q.lat) \/ NonNumeric(q.lon)
                              \/ NonNumeric(q.radius)
         IN  /\ ~Authenticated(resp.req)
                  => (resp.code = 401 /\ resp.reads = <<>>)
             /\ (Authenticated(resp.req) /\ nonNumeric)
                  => (resp.code = 400 /\ resp.error # RadiusError
                        /\ resp.reads = <<>>)
             /\ resp.reads # <<>>
                  => (Authenticated(resp.req) /\ ~nonNumeric
                        /\ ~OutsideZeroToFive(q.radius))
    /\ nearby.pc # "idle" =>
         LET q == nearby.req.query
         IN  /\ Authenticated(nearby.req)
             /\ ~(NonNumeric(q.lat) \/ NonNumeric(q.lon) \/ NonNumeric(q.radius))
             /\ ~OutsideZeroToFive(q.radius)

\* the text has no leading numeral either: parseFloat finds no number in it
Unparsable(p) == ~p.given \/ p.text = <<>> \/ isNaN(parseFloat(p.text))

\* The order of the checks, with the non-numeric parameters narrowed to the
\* texts in which no number is found at all: 401 before everything, the
\* parameter checks before the range check, no read before all three pass.
PreconditionOrderOfUnparsable ==
    /\ resp.op = "nearby" =>
         LET q == resp.req.query
             unparsable == Unparsable(q.lat) \/ Unparsable(q.lon)
                              \/ Unparsable(q.radius)
         IN  /\ ~Authenticated(resp.req)
                  => (resp.code = 401 /\ resp.reads = <<>>)
             /\ (Authenticated(resp.req) /\ unparsable)
                  => (resp.code = 400 /\ resp.error # RadiusError
                        /\ resp.reads = <<>>)
             /\ (Authenticated(resp.req) /\ ~unparsable /\ Numeral(q.radius)
                   /\ OutsideZeroToFive(q.radius))
                  => (resp.code = 400 /\ resp.error = RadiusError
                        /\ resp.reads = <<>>)
             /\ resp.code \in {401, 400} => resp.reads = <<>>
    /\ nearby.pc # "idle" =>
         LET q == nearby.req.query
         IN  /\ Authenticated(nearby.req)
             /\ ~(Unparsable(q.lat) \/ Unparsable(q.lon) \/ Unparsable(q.radius))

-----------------------------------------------------------------------------
(* Properties of the discovery result *)

\* the read was made by the request r and did not fail
ReadOk(r, name) ==
    (\E i \in 1..Len(r.reads) : r.reads[i] = name) /\ name \notin r.failed

\* the row is online and its last activity is at most 120 s before t
Fresh(row, t) ==
    /\ row.presence_status = "online"
    /\ row.last_active_at # NoTime
    /\ t - row.last_active_at <= 120

\* no block row between the two users, in either direction
Visible(a, b, rows) == BlockRow(a, b) \notin rows /\ BlockRow(b, a) \notin rows

\* the fixes of u recorded at most 300 s before t
RecentFixes(table, u, t) ==
    {i \in 1..Len(table) :
        table[i].user_id = u /\ t - table[i].recorded_at <= 300}

\* those with the greatest recorded-at
MostRecentFixes(table, u, t) ==
    {i \in RecentFixes(table, u, t) :
        \A j \in RecentFixes(table, u, t) :
            table[i].recorded_at >= table[j].recorded_at}

\* the unrounded distance from the place asked about to the fix
DistanceTo(q, fix) ==
    haversineDistance(q.lat.means, q.lon.means,
                      Num(fix.latitude), Num(fix.longitude))

WithinRadius(q, fix) == Le(DistanceTo(q, fix), q.radius.means)

\* U passes every criterion but the distance, each judged on the table the
\* request read, at the time it read it
Candidate(r, U) ==
    /\ U # r.userId
    /\ Fresh(r.seen.users[U], r.seen.tUsers)
    /\ Visible(r.userId, U, r.seen.blocks)
    /\ RecentFixes(r.seen.locations, U, r.seen.tLocations) # {}

\* C5: exact membership.  When every read succeeds, the users returned are
\* exactly the users other than the requester that are online, active in
\* the last 120 s, in no block with the requester, have a fix of the last
\* 300 s, and whose most recent such fix is within the radius of the place
\* asked about by its unrounded distance; each has one entry.  (When two
\* fixes of a user are equally recent, either may be the most recent one.)
C5_ExactMembership ==
    (Listed /\ resp.failed = {}) =>
        LET q == resp.req.query
            fixesOf(U) == MostRecentFixes(resp.seen.locations, U,
                                          resp.seen.tLocations)
            surely == {U \in UserIds :
                         /\ Candidate(resp, U)
                         /\ \A i \in fixesOf(U) :
                                WithinRadius(q, resp.seen.locations[i])}
            maybe == {U \in UserIds :
                        /\ Candidate(resp, U)
                        /\ \E i \in fixesOf(U) :
                               WithinRadius(q, resp.seen.locations[i])}
        IN  /\ surely \subseteq Returned
            /\ Returned \subseteq maybe
            /\ Len(resp.users) = Cardinality(Returned)

\* C5 witness: one user qualifies and has the only entry, while another
\* candidate is left out by its distance alone.
C5_Witness ==
    /\ Listed /\ resp.failed = {}
    /\ Len(resp.users) = 1
    /\ \E U \in UserIds \ Returned :
          /\ Candidate(resp, U)
          /\ \A i \in MostRecentFixes(resp.seen.locations, U,
                                      resp.seen.tLocations) :
                 ~WithinRadius(resp.req.query, resp.seen.locations[i])

\* the presence filter of the claim on the users table a request read
FreshUsers(r) ==
    {U \in UserIds \ {r.userId} : Fresh(r.seen.users[U], r.seen.tUsers)}

\* C6: presence freshness.  The users that pass the presence read of a
\* request are exactly the users other than the requester that were, at the
\* moment of that read, online with a last activity at most 120 s old (119 s
\* and 120 s pass, 121 s and no recorded activity do not), and every user
\* returned is one of them.
C6_PresenceFreshness ==
    /\ (resp.op = "nearby" /\ ReadOk(resp, "users")) =>
          /\ resp.seen.online = FreshUsers(resp)
          /\ Listed => Returned \subseteq FreshUsers(resp)
    /\ nearby.pc = "locations" => nearby.seen.online = FreshUsers(nearby)

\* C6 witness: a user whose last activity was exactly 120 s old at the
\* presence read is returned, and an online user whose activity was 121 s
\* old or never recorded did not pass.
C6_Witness ==
    /\ Listed
    /\ \E U \in Returned :
          resp.seen.tUsers - resp.seen.users[U].last_active_at = 120
    /\ \E U \in UserIds \ (resp.seen.online \cup {resp.userId}) :
          /\ resp.seen.users[U].presence_status = "online"
          /\ \/ resp.seen.users[U].last_active_at = NoTime
             \/ resp.seen.tUsers - resp.seen.users[U].last_active_at = 121

\* C7: most-recent-fix selection.  When the locations read succeeds the
\* request is answered 200, and for every candidate it uses no fix if the
\* candidate has none of the last 300 s (the candidate is dropped) and
\* otherwise one fix, a fix of the candidate with the greatest recorded-at
\* among those of the last 300 s; each entry's distance is the distance to
\* that fix.
C7_MostRecentFix ==
    (resp.op = "nearby" /\ ReadOk(resp, "locations")) =>
        LET sn == resp.seen
            candidates == {resp.availableUsers[i] :
                             i \in 1..Len(resp.availableUsers)}
            used == sn.userLocations
        IN  /\ resp.code = 200
            /\ DOMAIN used \subseteq candidates
            /\ Returned \subseteq DOMAIN used
            /\ \A U \in candidates :
                  LET recent == MostRecentFixes(sn.locations, U, sn.tLocations)
                  IN  IF recent = {}
                      THEN U \notin DOMAIN used
                      ELSE /\ U \in DOMAIN used
                           /\ \E i \in recent :
                                 used[U] = [lat |-> Num(sn.locations[i].latitude),
                                            lon |-> Num(sn.locations[i].longitude)]
            /\ \A i \in 1..Len(resp.users) :
                  LET e == resp.users[i]
                      d == haversineDistance(resp.latitude, resp.longitude,
                                             used[e.id].lat, used[e.id].lon)
                  IN  Le(d, resp.radiusKm) /\ e.distance_km = RoundKm(d)

\* C7 witness: a candidate with an older fix of the last 300 s within the
\* radius and a newer one outside it is not returned by a request that
\* succeeds.
C7_Witness ==
    /\ resp.op = "nearby" /\ ReadOk(resp, "locations") /\ resp.code = 200
    /\ LET sn == resp.seen
           candidates == {resp.availableUsers[i] :
                            i \in 1..Len(resp.availableUsers)}
       IN  \E U \in candidates \ Returned :
              \E i \in RecentFixes(sn.locations, U, sn.tLocations)
                         \ MostRecentFixes(sn.locations, U, sn.tLocations) :
                  WithinRadius(resp.req.query, sn.locations[i])

-----------------------------------------------------------------------------
(* Properties of the order and the cap *)

\* the unrounded distance of candidate i of the ranked input
RankDistance(i) ==
    haversineDistance(Num(0), Num(0),
                      rank.userLocations[i].lat, rank.userLocations[i].lon)

\* the candidates within the radius
RankQualifying ==
    {i \in 1..Len(rank.availableUsers) : Le(RankDistance(i), rank.radiusKm)}

RankReturned == {rank.users[k].id : k \in 1..Len(rank.users)}

\* C8: ordering and capping.  The list is in non-decreasing order of the
\* rounded distance; it has min(50, number of qualifying candidates)
\* entries, so at most 50 and exactly 50 when 50 or more qualify; its
\* entries are distinct qualifying candidates with their rounded distances;
\* no qualifying candidate left out is strictly nearer, by rounded distance,
\* than an entry; and entries at pairwise distinct distances ascend strictly.
C8_OrderAndCap ==
    rank.stage = "output" =>
        LET out == rank.users
            count == Cardinality(RankQualifying)
        IN  /\ \A k \in 1..(Len(out) - 1) :
                  out[k].distance_km <= out[k + 1].distance_km
            /\ Len(out) <= 50
            /\ Len(out) = IF count >= 50 THEN 50 ELSE count
            /\ Cardinality(RankReturned) = Len(out)
            /\ RankReturned \subseteq RankQualifying
            /\ \A k \in 1..Len(out) :
                  out[k].distance_km = RoundKm(RankDistance(out[k].id))
            /\ \A c \in RankQualifying \ RankReturned :
                  \A k \in 1..Len(out) :
                      RoundKm(RankDistance(c)) >= out[k].distance_km
            /\ (\A a, b \in RankQualifying :
                    a # b => RoundKm(RankDistance(a)) # RoundKm(RankDistance(b)))
                 => \A k \in 1..(Len(out) - 1) :
                        out[k].distance_km < out[k + 1].distance_km

\* C8 witness: 60 candidates within the radius at pairwise distinct
\* distances, handed over farthest first, give 50 entries in strictly
\* ascending distance.
C8_Witness ==
    /\ rank.stage = "output"
    /\ rank.pattern = "descending"
    /\ Len(rank.availableUsers) = 60
    /\ Cardinality(RankQualifying) = 60
    /\ Len(rank.users) = 50
    /\ \A k \in 1..49 : rank.users[k].distance_km < rank.users[k + 1].distance_km
    /\ rank.users[1].id = 60

-----------------------------------------------------------------------------
(* Properties of the heartbeat *)

\* C10: heartbeat contract.  In every step that answers a heartbeat: when
\* the body's userId is not the caller's verified id the answer is 403 and
\* no user record changes; when it is the caller's own id and the store
\* takes the write, the answer is 200, that user's last activity becomes the
\* current time, its presence status becomes the status supplied or stays as
\* it was when none is supplied, and no other user's record changes; an
\* answer other than 200 changes no user record.
C10_HeartbeatContract ==
    [][(nops' # nops /\ resp'.op = "heartbeat") =>
         LET r == resp'
             caller == Authenticate(r.header)
         IN  /\ (caller # NoUser /\ r.userId # caller)
                  => (r.code = 403 /\ users' = users)
             /\ (caller # NoUser /\ r.userId = caller)
                  => \/ /\ r.code = 200
                        /\ users'[caller].last_active_at = now
                        /\ users'[caller].presence_status =
                             IF r.presenceStatus # NoStatus
                             THEN r.presenceStatus
                             ELSE users[caller].presence_status
                        /\ \A o \in UserIds \ {caller} : users'[o] = users[o]
                     \/ /\ r.code = 500
                        /\ users' = users
             /\ r.code # 200 => users' = users
             /\ DOMAIN users' = DOMAIN users]_vars

\* C10 witness: a heartbeat without a status for the caller's own id was
\* answered 200; the user, offline before, is still offline and its last
\* activity is the time of the heartbeat.
C10_Witness ==
    /\ resp.op = "heartbeat" /\ resp.code = 200
    /\ resp.presenceStatus = NoStatus
    /\ resp.userId = Authenticate(resp.header)
    /\ users[resp.userId].presence_status = "offline"
    /\ users[resp.userId].last_active_at = resp.at

-----------------------------------------------------------------------------
(* POST /presence/status *)

StatusResponse(code, error, h, status) ==
    [op |-> "status", code |-> code, error |-> error, at |-> now,
     header |-> h, status |-> status]

\* !status || !['online', 'offline'].includes(status)
InvalidStatus(status) ==
    status = NoStatus \/ status \notin {"online", "offline"}

\* an update that leaves last_active_at alone when the status is offline
StatusUpdateKeepsActivity(row, status, t) ==
    [row EXCEPT !.presence_status = status,
                !.last_active_at = IF status = "offline" THEN @ ELSE t]

\* { presence_status: status, last_active_at: new Date().toISOString() }
StatusUpdate(row, status, t) ==
    [row EXCEPT !.presence_status = status, !.last_active_at = t]

\* .from('users').update(...).eq('id', verified.userId)
UpdateStatus(table, userId, status, t) ==
    [u \in DOMAIN table |->
        IF u = userId THEN StatusUpdate(table[u], status, t) ELSE table[u]]

SetStatus(h, status, ok) ==
    LET verified == Authenticate(h)
        answer(code, error) == resp' = StatusResponse(code, error, h, status)
    IN  /\ nops < MaxOps
        /\ nops' = nops + 1
        /\ IF verified = NoUser
           THEN /\ answer(401, IF ~h.present \/ h.scheme # "Bearer"
                               THEN "Unauthorized" ELSE "Invalid token")
                /\ UNCHANGED users
           ELSE IF InvalidStatus(status)
           THEN /\ answer(400, "Invalid status")
                /\ UNCHANGED users
           ELSE /\ IF ok
                   THEN /\ users' = UpdateStatus(users, verified, status, now)
                        /\ answer(200, "")
                   ELSE /\ answer(500, "Failed to update status")
                        /\ UNCHANGED users
        /\ UNCHANGED <<blocks, locations, now, nearby, rank, auth, calls, truncation, chat>>
        /\ held' = HeldNext

-----------------------------------------------------------------------------
(* POST /cleanup/inactive-users: the select, then the update *)

StaleAfter == 60

SweepResponse(code, error, updated, inactiveUsers, seen, tRead) ==
    [op |-> "sweep", code |-> code, error |-> error, at |-> now,
     updated |-> updated, inactiveUsers |-> inactiveUsers, seen |-> seen,
     tRead |-> tRead, written |-> users]

\* a select with .lte in place of .lt
InactiveUsersQueryLte(table, t) ==
    {u \in DOMAIN table :
        /\ table[u].presence_status = "online"
        /\ table[u].last_active_at # NoTime
        /\ table[u].last_active_at <= t - StaleAfter}

\* .from('users').select('id, name, last_active_at')
\*   .eq('presence_status', 'online').lt('last_active_at', sixtySecondsAgo)
InactiveUsersQuery(table, t) ==
    {u \in DOMAIN table :
        /\ table[u].presence_status = "online"
        /\ table[u].last_active_at # NoTime
        /\ table[u].last_active_at < t - StaleAfter}

\* .from('users').update({ presence_status: 'offline' }).in('id', userIds)
MarkOffline(table, userIds) ==
    [u \in DOMAIN table |->
        IF u \in userIds THEN [table[u] EXCEPT !.presence_status = "offline"]
        ELSE table[u]]

\* The select.  A failed select and an empty result are answered at once;
\* otherwise the request goes on to the update with the rows it found.
SweepRead(ok) ==
    LET inactiveUsers == InactiveUsersQuery(users, now)
    IN  /\ calls.sweep.pc = "idle"
        /\ IF ~ok
           THEN /\ resp' = SweepResponse(500, "Failed to fetch inactive users",
                                         0, {}, users, now)
                /\ UNCHANGED calls
           ELSE IF inactiveUsers = {}
           THEN /\ resp' = SweepResponse(200, "", 0, {}, users, now)
                /\ UNCHANGED calls
           ELSE /\ calls' = [calls EXCEPT !.sweep =
                               [pc |-> "update", inactiveUsers |-> inactiveUsers,
                                seen |-> users, tRead |-> now]]
                /\ UNCHANGED resp
        /\ UNCHANGED <<store, now, nearby, nops, rank, auth, truncation, chat>>
        /\ held' = HeldNext

\* The update, and the answer with updated: inactiveUsers.length
SweepWrite(ok) ==
    LET sweep == calls.sweep
    IN  /\ sweep.pc = "update"
        /\ IF ok
           THEN /\ users' = MarkOffline(users, sweep.inactiveUsers)
                /\ resp' = SweepResponse(200, "",
                                         Cardinality(sweep.inactiveUsers),
                                         sweep.inactiveUsers, sweep.seen,
                                         sweep.tRead)
           ELSE /\ resp' = SweepResponse(500, "Failed to update users", 0,
                                         sweep.inactiveUsers, sweep.seen,
                                         sweep.tRead)
                /\ UNCHANGED users
        /\ calls' = [calls EXCEPT !.sweep = NoCall]
        /\ UNCHANGED <<blocks, locations, now, nearby, nops, rank, auth, truncation, chat>>
        /\ held' = HeldNext

-----------------------------------------------------------------------------
(* Presence alone: heartbeats, status requests and sweeps on users whose   *)
(* last activity lies around the two windows                               *)

InitPresenceUsers ==
    {[u \in UserIds |->
        CASE u = "u1" -> r1
          [] u = "u2" -> r2
          [] OTHER -> r3] :
     r1 \in {UserRow("online", T0 - 119), UserRow("online", T0 - StaleAfter)},
     r2 \in {UserRow("online", T0 - StaleAfter - 1),
            UserRow("offline", T0 - StaleAfter - 1)},
     r3 \in {UserRow("online", NoTime), UserRow("online", T0 - 10),
            UserRow("offline", T0 - 200)}}

\* statuses a body can carry: none, the two of the enum, and others
StatusInputs == {NoStatus, "online", "offline", "away", "ONLINE"}

PresenceRequests ==
    {HeartbeatRequest(Bearer(u), u, st, TRUE) :
       u \in UserIds, st \in StatusInputs}
    \cup {HeartbeatRequest(Bearer("u1"), "u1", "offline", FALSE),
          HeartbeatRequest(Bearer("u1"), "u2", "offline", TRUE),
          HeartbeatRequest(Header("Bearer", "expired"), "u1", "offline", TRUE)}

StatusRequest(h, status, ok) == [header |-> h, status |-> status, ok |-> ok]

StatusRequests ==
    {StatusRequest(Bearer(u), st, TRUE) : u \in UserIds, st \in StatusInputs}
    \cup {StatusRequest(Bearer("u1"), "offline", FALSE),
          StatusRequest(NoHeader, "online", TRUE),
          StatusRequest(Header("Bearer", "expired"), "online", TRUE)}

InitPresence ==
    /\ users \in InitPresenceUsers
    /\ blocks = InitBlocks
    /\ locations = InitLocations
    /\ now = T0
    /\ nearby = Idle
    /\ held = {}
    /\ resp = NoResponse
    /\ nops = 0
    /\ rank = NoRank
    /\ auth = UserIds
    /\ calls = NoCalls
    /\ truncation = NoTruncation
    /\ NoChat

NextPresence ==
    \/ \E r \in PresenceRequests :
          Heartbeat(r.header, r.userId, r.presenceStatus, r.ok)
    \/ \E r \in StatusRequests : SetStatus(r.header, r.status, r.ok)
    \/ \E ok \in BOOLEAN : SweepRead(ok)
    \/ \E ok \in BOOLEAN : SweepWrite(ok)
    \/ Tick

SpecPresence == InitPresence /\ [][NextPresence]_vars

-----------------------------------------------------------------------------
(* Properties of presence *)

\* the step answers a status request
StatusAnswered == nops' # nops /\ resp'.op = "status"

\* C11: a status request of an authenticated caller whose status is missing
\* or is anything but online or offline is answered 400 and changes no user
\* row; one with status online or offline sets the caller's presence_status
\* to it and the caller's last_active_at to the time of the request, offline
\* included, and changes no other row, unless the store fails the update
\* (500, no row changed).
C11_SetStatusContract ==
    [][StatusAnswered =>
         LET r == resp'
             caller == Authenticate(r.header)
         IN  /\ (caller # NoUser /\ r.status # "online" /\ r.status # "offline")
                  => (r.code = 400 /\ users' = users)
             /\ (caller # NoUser /\ r.status \in {"online", "offline"})
                  => \/ /\ r.code = 200
                        /\ users'[caller].presence_status = r.status
                        /\ users'[caller].last_active_at = now
                        /\ \A o \in UserIds \ {caller} : users'[o] = users[o]
                     \/ /\ r.code = 500
                        /\ users' = users
             /\ r.code # 200 => users' = users
             /\ DOMAIN users' = DOMAIN users]_vars

\* C11 witness: a status request with status offline, sent after the clock
\* moved, was answered 200; the caller is offline and its last activity is
\* the time of the request.
C11_Witness ==
    /\ resp.op = "status" /\ resp.code = 200
    /\ resp.status = "offline"
    /\ resp.at = T0 + 1
    /\ users[Authenticate(resp.header)].presence_status = "offline"
    /\ users[Authenticate(resp.header)].last_active_at = resp.at

\* C12: in every state reached by heartbeats, status requests and sweeps with
\* any request body, the presence_status of every user row is online or
\* offline.
C12_PresenceStatusDomain ==
    \A u \in DOMAIN users : users[u].presence_status \in {"online", "offline"}

\* the step answers a sweep
SweepAnswered ==
    /\ resp'.op = "sweep"
    /\ \/ calls.sweep.pc = "update" /\ calls'.sweep.pc = "idle"
       \/ calls.sweep.pc = "idle" /\ calls' = calls /\ resp' # resp

\* the users that are online with a last activity more than 60 s before t
Stale(table, t) ==
    {u \in DOMAIN table :
        /\ table[u].presence_status = "online"
        /\ table[u].last_active_at # NoTime
        /\ t - table[u].last_active_at > 60}

\* C13: a sweep during which no user row was written, answered 200, sets to
\* offline exactly the users that were online with a last activity more than
\* 60 s before the sweep's time, reports their number, leaves the status of
\* every other user as it was (online users active within 60 s, offline
\* users, online users without a last activity), changes no last_active_at
\* and sets nobody online; a sweep answered 500 changes no row.
C13_StaleSweep ==
    [][(SweepAnswered /\ resp'.seen = users) =>
         LET r == resp'
             stale == Stale(users, r.tRead)
         IN  /\ DOMAIN users' = DOMAIN users
             /\ r.code = 200 =>
                  /\ \A u \in DOMAIN users :
                        /\ users'[u].last_active_at = users[u].last_active_at
                        /\ users'[u].presence_status =
                             IF u \in stale THEN "offline"
                             ELSE users[u].presence_status
                  /\ r.updated = Cardinality(stale)
                  /\ r.updated =
                       Cardinality({u \in DOMAIN users :
                                      users'[u] # users[u]})
             /\ r.code # 200 => users' = users]_vars

\* C13 witness: a sweep that met no concurrent write set a stale user to
\* offline and reported 1, while a user online with a last activity exactly
\* 60 s before the sweep and an online user without a last activity are
\* still online.
C13_Witness ==
    /\ resp.op = "sweep" /\ resp.code = 200
    /\ resp.seen = resp.written
    /\ resp.updated = 1
    /\ \E u \in resp.inactiveUsers :
          /\ users[u].presence_status = "offline"
          /\ users[u].last_active_at = resp.seen[u].last_active_at
    /\ \E u \in DOMAIN users :
          /\ resp.seen[u].last_active_at = resp.tRead - 60
          /\ users[u].presence_status = "online"
    /\ \E u \in DOMAIN users :
          /\ resp.seen[u].last_active_at = NoTime
          /\ users[u].presence_status = "online"

\* u passes the presence filter of the nearby requests of the other users
PassesPresence(table, t, u) ==
    \E requester \in UserIds \ {u} : u \in OnlineUsersQuery(table, t, requester)

\* the step answers a heartbeat or status request by which u itself asks for
\* a status other than online
AsksOtherStatus(u) ==
    /\ nops' # nops
    /\ resp'.op \in {"heartbeat", "status"}
    /\ Authenticate(resp'.header) = u
    /\ IF resp'.op = "heartbeat"
       THEN resp'.presenceStatus \notin {NoStatus, "online"}
       ELSE resp'.status # "online"

\* C14: a user that passes the presence filter of nearby requests and whose
\* last activity is less than 120 s old after a step still passes the filter
\* after that step, sweeps and heartbeats without a status included, unless
\* the step is the user's own request for another status.
C14_MissedHeartbeatTolerated ==
    [][\A u \in DOMAIN users :
         (/\ PassesPresence(users, now, u)
          /\ u \in DOMAIN users'
          /\ users'[u].last_active_at # NoTime
          /\ now' - users'[u].last_active_at < OnlineWindow
          /\ ~AsksOtherStatus(u))
           => PassesPresence(users', now', u)]_vars

-----------------------------------------------------------------------------
(* The batch alone: every body against a users table with or without a    *)
(* row for the caller                                                      *)

\* u3 has signed in; its users row exists or has not been created
InitBatchUsers ==
    {[u \in D |-> UserRow("online", T0 - 50)] :
       D \in {UserIds, UserIds \ {"u3"}}}

\* the bodies of Batches, one with coordinates of either sign, and one whose
\* second element is null
BatchBodies ==
    Batches \cup {Array(<<LocationData(123456, 0 - 98765, T0 - 1),
                         LocationData(0 - 100, 999, T0 - 2)>>),
                  ArrayWithHoles(<<Near, LocationData(0, 0, NoTime)>>, {2})}

WideBatchRequests ==
    {BatchRequest(Bearer(c), u, b, okUser, okInsert) :
       c \in {"u2", "u3"}, u \in {"u2", "u3"}, b \in BatchBodies,
       okUser \in BOOLEAN, okInsert \in BOOLEAN}
    \cup {BatchRequest(h, "u2", b, TRUE, TRUE) :
            h \in {NoHeader, Header("Bearer", "expired")}, b \in BatchBodies}

InitBatch ==
    /\ users \in InitBatchUsers
    /\ blocks = InitBlocks
    /\ locations = InitLocations
    /\ now = T0
    /\ nearby = Idle
    /\ held = {}
    /\ resp = NoResponse
    /\ nops = 0
    /\ rank = NoRank
    /\ auth = UserIds
    /\ calls = NoCalls
    /\ truncation = NoTruncation
    /\ NoChat

NextBatch ==
    \/ \E r \in WideBatchRequests :
          LocationBatch(r.header, r.userId, r.locations, r.okUser, r.okInsert)
    \/ Tick

SpecBatch == InitBatch /\ [][NextBatch]_vars

-----------------------------------------------------------------------------
(* Properties of the location batch *)

\* the step answers a batch request
BatchAnswered == nops' # nops /\ resp'.op = "batch"

\* the locations field of the body is a non-empty array
NonEmptyArray(locs) == locs.isArray /\ Len(locs.items) > 0

\* C15: a batch request of an authenticated caller is answered 403 when the
\* body userId is not the caller's id, whatever the locations; else 400 when
\* locations is not an array or is empty, whether or not the user exists;
\* else 404 when no users row has that id (500 when the lookup itself
\* fails); in all these cases the locations table is unchanged.
C15_BatchValidationOrder ==
    [][BatchAnswered =>
         LET r == resp'
             caller == Authenticate(r.header)
         IN  caller # NoUser =>
               /\ r.userId # caller => r.code = 403
               /\ (r.userId = caller /\ ~NonEmptyArray(r.locations))
                    => r.code = 400
               /\ (/\ r.userId = caller
                   /\ NonEmptyArray(r.locations)
                   /\ r.userId \notin DOMAIN users)
                    => \/ r.code = 404
                       \/ r.code = 500 /\ r.error = "Failed to verify user"
               /\ r.code \in {403, 400, 404} => locations' = locations
               /\ r.code = 404 => r.userId \notin DOMAIN users]_vars

\* C15 witness: a request of u3, which has no users row, for its own id with
\* a non-empty array was answered 404 and wrote nothing.
C15_Witness ==
    /\ resp.op = "batch" /\ resp.code = 404
    /\ Authenticate(resp.header) = resp.userId
    /\ resp.userId \notin DOMAIN users
    /\ NonEmptyArray(resp.locations)
    /\ locations = InitLocations

\* a batch with a null element, which makes the map over the array throw
\* after the caller was verified, is answered 500 with nothing written
BatchWithHoleRejected ==
    /\ resp.op = "batch"
    /\ resp.locations.holes # {}
    /\ Authenticate(resp.header) = resp.userId
    /\ resp.userId \in DOMAIN users
    /\ resp.error = "Internal server error"
    /\ locations = InitLocations

-----------------------------------------------------------------------------
(* The sanitizer alone: truncateCoordinate applied to a coordinate, and    *)
(* applied again to its result                                             *)

\* multiples of 0.0001 from 0 to MaxFourths / 10000 are among the inputs
MaxFourths == 40

\* the binary64 next to x on the side of zero, and on the other side
Below(x) ==
    LET d == BigSub(x.m, <<1>>)
    IN  IF BigBits(d) = 53 THEN Binary64(x.s, d, x.e)
        ELSE Binary64(x.s, BigAddSmall(BigShl(d, 1), 1), x.e - 1)

Above(x) ==
    LET u == BigAddSmall(x.m, 1)
    IN  IF BigBits(u) = 53 THEN Binary64(x.s, u, x.e)
        ELSE Binary64(x.s, BigShr(u, 1), x.e + 1)

\* coordinates of six decimals, in micro-degrees
MicroInputs ==
    {300, 350, 1000, 45099, 0 - 1099, 500000, 26211100, 157118611,
     0 - 179999999, 90000000}

\* The inputs: 0, the multiples of 0.0001 of either sign as JSON parses
\* them, the binary64 values next to them, and the six-decimal coordinates.
Coordinates ==
    {Quotient(s, 0, 10000) : s \in {1, 0 - 1}}
    \cup UNION {{Quotient(s, k, 10000), Below(Quotient(s, k, 10000)),
                 Above(Quotient(s, k, 10000))} :
                  s \in {1, 0 - 1}, k \in 1..MaxFourths}
    \cup {FromMicro(k) : k \in MicroInputs}

InitTruncate ==
    /\ users \in InitUsers
    /\ blocks = InitBlocks
    /\ locations = InitLocations
    /\ now = T0
    /\ nearby = Idle
    /\ held = {}
    /\ resp = NoResponse
    /\ nops = 0
    /\ rank = NoRank
    /\ auth = UserIds
    /\ calls = NoCalls
    /\ \E c \in Coordinates : truncation = [stage |-> "input", c |-> c]
    /\ NoChat

Truncate ==
    /\ truncation.stage = "input"
    /\ truncation' = [stage |-> "once", c |-> truncation.c,
                      t |-> truncateCoordinate(truncation.c)]
    /\ UNCHANGED <<store, now, nearby, held, resp, nops, rank, auth, calls, chat>>

TruncateAgain ==
    /\ truncation.stage = "once"
    /\ truncation' = [stage |-> "twice", c |-> truncation.c,
                      t |-> truncation.t,
                      tt |-> truncateCoordinate(truncation.t)]
    /\ UNCHANGED <<store, now, nearby, held, resp, nops, rank, auth, calls, chat>>

NextTruncate ==
    \/ Truncate
    \/ TruncateAgain

SpecTruncate == InitTruncate /\ [][NextTruncate]_vars

-----------------------------------------------------------------------------
(* Properties of the sanitizer, in exact arithmetic on the binary64 values *)

\* the mantissas of x and y over the smaller of the two exponents
Aligned(x, y) ==
    LET e == IF x.e < y.e THEN x.e ELSE y.e
    IN  [x |-> BigShl(x.m, x.e - e), y |-> BigShl(y.m, y.e - e), e |-> e]

\* t is the binary64 of a decimal with at most four decimals
FourDecimals(t) == t = Quotient(t.s, Abs(ToMicro(t)) \div 100, 10000)

\* t is 0 or has the sign of c and a magnitude of at most that of c
TowardZero(c, t) ==
    \/ t.m = <<>>
    \/ t.s = c.s /\ ~BigLess(Aligned(c, t).x, Aligned(c, t).y)

\* |t - c| < 0.0001, for t and c of the same sign or t = 0
Within(c, t) ==
    LET a == Aligned(c, t)
        d == IF BigLess(a.x, a.y) THEN BigSub(a.y, a.x) ELSE BigSub(a.x, a.y)
    IN  BigLess(BigMul(d, 10000), BigShl(<<1>>, 0 - a.e))

Truncated == truncation.stage \in {"once", "twice"}

TruncationFourDecimals == Truncated => FourDecimals(truncation.t)

TruncationWithin == Truncated => Within(truncation.c, truncation.t)

TruncationTowardZero == Truncated => TowardZero(truncation.c, truncation.t)

TruncationIdempotent ==
    truncation.stage = "twice" => truncation.tt = truncation.t

\* C17: for every coordinate c, truncateCoordinate(c) has at most four
\* decimals, lies between 0 and c, differs from c by less than 0.0001, and
\* truncateCoordinate applied to it returns it.
C17_Truncation ==
    /\ TruncationFourDecimals
    /\ TruncationTowardZero
    /\ TruncationWithin
    /\ TruncationIdempotent

-----------------------------------------------------------------------------
(* POST /account/delete: one store call per step, in the order of the      *)
(* handler.                                                                *)
(* The deletes on messages and conversation_participants find no row: the  *)
(* specifications with an account deletion start without conversations.    *)
(* The results of the deletes of locations and blocks are not looked at    *)
(* by the handler.                                                         *)

DeleteResponse(code, error, h) ==
    [op |-> "delete account", code |-> code, error |-> error, at |-> now,
     header |-> h]

\* .from('locations').delete() on the rows of every other user
LocationsOfOthersDeleted(table, userId) ==
    SelectSeq(table, LAMBDA row : row.user_id = userId)

\* .from('locations').delete().eq('user_id', userId)
LocationsDeleted(table, userId) ==
    SelectSeq(table, LAMBDA row : row.user_id # userId)

\* .from('blocks').delete().or(blocker_id.eq.userId, blocked_id.eq.userId)
BlocksDeleted(table, userId) ==
    {b \in table : b[1] # userId /\ b[2] # userId}

\* .from('users').delete().eq('id', userId)
UserDeleted(table, userId) ==
    [u \in DOMAIN table \ {userId} |-> table[u]]

\* Authentication and confirmation; a confirmed request goes on to the
\* deletes.  One account is deleted per behaviour.
DeleteStart(h, confirmation) ==
    LET verified == Authenticate(h)
    IN  /\ calls.deletion.pc = "idle"
        /\ IF verified = NoUser
           THEN /\ resp' = DeleteResponse(401,
                               IF ~h.present \/ h.scheme # "Bearer"
                               THEN "Unauthorized" ELSE "Invalid token", h)
                /\ UNCHANGED calls
           ELSE IF ~confirmation
           THEN /\ resp' = DeleteResponse(400, "Confirmation required", h)
                /\ UNCHANGED calls
           ELSE /\ calls' = [calls EXCEPT !.deletion =
                               [pc |-> "locations", userId |-> verified,
                                header |-> h]]
                /\ UNCHANGED resp
        /\ UNCHANGED <<store, now, nearby, nops, rank, auth, truncation, chat>>
        /\ held' = HeldNext

DeleteLocations(ok) ==
    /\ calls.deletion.pc = "locations"
    /\ locations' = IF ok THEN LocationsDeleted(locations, calls.deletion.userId)
                    ELSE locations
    /\ calls' = [calls EXCEPT !.deletion.pc = "blocks"]
    /\ UNCHANGED <<users, blocks, now, nearby, resp, nops, rank, auth,
                   truncation, chat>>
    /\ held' = HeldNext

DeleteBlocks(ok) ==
    /\ calls.deletion.pc = "blocks"
    /\ blocks' = IF ok THEN BlocksDeleted(blocks, calls.deletion.userId)
                 ELSE blocks
    /\ calls' = [calls EXCEPT !.deletion.pc = "user"]
    /\ UNCHANGED <<users, locations, now, nearby, resp, nops, rank, auth,
                   truncation, chat>>
    /\ held' = HeldNext

DeleteUser(ok) ==
    /\ calls.deletion.pc = "user"
    /\ IF ok
       THEN /\ users' = UserDeleted(users, calls.deletion.userId)
            /\ calls' = [calls EXCEPT !.deletion.pc = "auth"]
            /\ UNCHANGED resp
       ELSE /\ resp' = DeleteResponse(500, "Failed to delete account",
                                      calls.deletion.header)
            /\ calls' = [calls EXCEPT !.deletion = [pc |-> "done"]]
            /\ UNCHANGED users
    /\ UNCHANGED <<blocks, locations, now, nearby, nops, rank, auth,
                   truncation, chat>>
    /\ held' = HeldNext

\* supabaseAdmin.auth.admin.deleteUser; its error is logged only
DeleteAuth(ok) ==
    /\ calls.deletion.pc = "auth"
    /\ auth' = IF ok THEN auth \ {calls.deletion.userId} ELSE auth
    /\ resp' = DeleteResponse(200, "", calls.deletion.header)
    /\ calls' = [calls EXCEPT !.deletion = [pc |-> "done"]]
    /\ UNCHANGED <<store, now, nearby, nops, rank, truncation, chat>>
    /\ held' = HeldNext

-----------------------------------------------------------------------------
(* The store under every endpoint that writes to it, account deletion      *)
(* included                                                                *)

DeleteRequests ==
    {[header |-> Bearer(u), confirmation |-> TRUE] : u \in {"u2", "u3"}}
    \cup {[header |-> Bearer("u2"), confirmation |-> FALSE],
          [header |-> NoHeader, confirmation |-> TRUE]}

NextAccount ==
    \/ \E r \in DeleteRequests : DeleteStart(r.header, r.confirmation)
    \/ \E ok \in BOOLEAN : DeleteLocations(ok)
    \/ \E ok \in BOOLEAN : DeleteBlocks(ok)
    \/ \E ok \in BOOLEAN : DeleteUser(ok)
    \/ \E ok \in BOOLEAN : DeleteAuth(ok)
    \/ \E r \in BatchRequests :
          LocationBatch(r.header, r.userId, r.locations, r.okUser, r.okInsert)
    \/ \E r \in HeartbeatRequests :
          Heartbeat(r.header, r.userId, r.presenceStatus, r.ok)
    \/ \E r \in StatusRequests : SetStatus(r.header, r.status, r.ok)
    \/ \E r \in BlockRequests :
          Block(r.header, r.blockedUserId, r.okRead, r.okWrite)
    \/ \E r \in UnblockRequests : Unblock(r.header, r.blockedUserId, r.okWrite)
    \/ \E ok \in BOOLEAN : SweepRead(ok)
    \/ \E ok \in BOOLEAN : SweepWrite(ok)
    \/ Tick

SpecAccount == Init /\ [][NextAccount]_vars

-----------------------------------------------------------------------------
(* Properties of the locations table *)

\* the step is the locations delete of an account deletion
DeletesLocations == calls.deletion.pc = "locations" /\ calls' # calls

\* C18: a step either keeps every stored location row as it is, in its
\* place, and at most appends rows after them, or it is the locations delete
\* of an account deletion, which removes rows of that account only and keeps
\* every row of the other users as it is and in order.
C18_LocationsAppendOnly ==
    [][\/ /\ Len(locations') >= Len(locations)
          /\ \A i \in 1..Len(locations) : locations'[i] = locations[i]
       \/ /\ DeletesLocations
          /\ locations' =
               SelectSeq(locations,
                         LAMBDA row : row.user_id # calls.deletion.userId)]_vars

\* C18 witness: u3's account deletion has removed u3's rows and a batch has
\* been appended; the rows of the other users from the initial table are all
\* still there, unchanged and in order, followed by the appended rows.
C18_Witness ==
    LET others == SelectSeq(InitLocations, LAMBDA row : row.user_id # "u3")
    IN  /\ resp.op = "batch" /\ resp.code = 200
        /\ calls.deletion.pc = "blocks"
        /\ calls.deletion.userId = "u3"
        /\ Len(locations) > Len(others)
        /\ SubSeq(locations, 1, Len(others)) = others
        /\ \A i \in 1..Len(locations) : locations[i].user_id # "u3"

-----------------------------------------------------------------------------
(* GET /locations/:userId and GET /profile/:userId: the block check, then  *)
(* the read of the location or of the users row                            *)

NoData == <<>>

LookupResponse(kind, code, error, h, userId, checked, seen, data) ==
    [op |-> "lookup", kind |-> kind, code |-> code, error |-> error,
     at |-> now, header |-> h, userId |-> userId, checked |-> checked,
     seen |-> seen, data |-> data]

\* .from('blocks').select('*')
\*   .or(blocker_id.eq.<caller>, blocked_id.eq.<caller>)
\*   .or(blocker_id.eq.<userId>, blocked_id.eq.<userId>)
\* the two or-filters are separate parameters of the query, which the store
\* combines with and
BlockData(table, callerId, userId) ==
    {b \in table : /\ b[1] = callerId \/ b[2] = callerId
                   /\ b[1] = userId \/ b[2] = userId}

\* .from('locations').eq('user_id', userId).gte('recorded_at', ...)
\*   .order('recorded_at', desc).limit(1): the rows that can come first
LatestLocations(table, userId, t) ==
    LET recent == {i \in 1..Len(table) :
                     /\ table[i].user_id = userId
                     /\ table[i].recorded_at >= t - LocationWindow}
    IN  {[latitude |-> table[i].latitude, longitude |-> table[i].longitude,
          recorded_at |-> table[i].recorded_at] :
           i \in {k \in recent :
                    \A o \in recent :
                       table[o].recorded_at <= table[k].recorded_at}}

\* Authentication and the block check.  The error of the check is not
\* looked at: a failed read is an empty blockData.
LookupStart(kind, h, userId, ok) ==
    LET verified == Authenticate(h)
        blockData == IF ok THEN BlockData(blocks, verified, userId) ELSE {}
    IN  /\ calls.lookup.pc = "idle"
        /\ IF verified = NoUser
           THEN /\ resp' = LookupResponse(kind, 401,
                               IF ~h.present \/ h.scheme # "Bearer"
                               THEN "Unauthorized" ELSE "Invalid token",
                               h, userId, FALSE, blocks, NoData)
                /\ UNCHANGED calls
           ELSE IF blockData # {}
           THEN /\ resp' = LookupResponse(kind, 403, "User not accessible",
                                          h, userId, ok, blocks, NoData)
                /\ UNCHANGED calls
           ELSE /\ calls' = [calls EXCEPT !.lookup =
                               [pc |-> "read", kind |-> kind, header |-> h,
                                userId |-> userId, checked |-> ok,
                                seen |-> blocks]]
                /\ UNCHANGED resp
        /\ UNCHANGED <<store, now, nearby, nops, rank, auth, truncation, chat>>
        /\ held' = HeldNext

\* The read of the latest fix of the last five minutes, or of the users row
LookupRead(ok) ==
    LET lookup == calls.lookup
        answer(code, error, data) ==
            resp' = LookupResponse(lookup.kind, code, error, lookup.header,
                                   lookup.userId, lookup.checked, lookup.seen,
                                   data)
        latest == LatestLocations(locations, lookup.userId, now)
    IN  /\ lookup.pc = "read"
        /\ IF lookup.kind = "location"
           THEN IF ~ok THEN answer(500, "Failed to fetch location", NoData)
                ELSE IF latest = {} THEN answer(200, "", NoData)
                ELSE \E row \in latest : answer(200, "", <<row>>)
           ELSE IF ~ok \/ lookup.userId \notin DOMAIN users
                THEN answer(404, "User not found", NoData)
                ELSE answer(200, "", <<users[lookup.userId]>>)
        /\ calls' = [calls EXCEPT !.lookup = NoCall]
        /\ UNCHANGED <<store, now, nearby, nops, rank, auth, truncation, chat>>
        /\ held' = HeldNext

-----------------------------------------------------------------------------
(* The direct lookups with blocks and unblocks in between *)

LookupRequests ==
    {[kind |-> k, header |-> Bearer(c), userId |-> u, ok |-> ok] :
       k \in {"location", "profile"}, c \in UserIds, u \in UserIds,
       ok \in BOOLEAN}
    \cup {[kind |-> k, header |-> NoHeader, userId |-> "u1", ok |-> TRUE] :
            k \in {"location", "profile"}}

NextLookup ==
    \/ \E r \in LookupRequests : LookupStart(r.kind, r.header, r.userId, r.ok)
    \/ \E ok \in BOOLEAN : LookupRead(ok)
    \/ \E r \in BlockRequests :
          Block(r.header, r.blockedUserId, r.okRead, r.okWrite)
    \/ \E r \in UnblockRequests : Unblock(r.header, r.blockedUserId, r.okWrite)
    \/ Tick

SpecLookup == Init /\ [][NextLookup]_vars

-----------------------------------------------------------------------------
(* Properties of the block relation *)

\* a row of the table has a and b as its two ends
BlockBetween(table, a, b) == <<a, b>> \in table \/ <<b, a>> \in table

\* the answer to a lookup of an authenticated caller whose block check the
\* store answered
Looked ==
    /\ resp.op = "lookup"
    /\ Authenticate(resp.header) # NoUser
    /\ resp.checked

\* a lookup of another user is answered 403 exactly when a row of the blocks
\* table at the time of the check has the caller and the target as its ends
PairwiseCheckOfOthers ==
    (Looked /\ resp.userId # Authenticate(resp.header)) =>
       (resp.code = 403
          <=> BlockBetween(resp.seen, Authenticate(resp.header), resp.userId))

\* C19: a location or profile lookup is answered 403 exactly when a row of
\* the blocks table at the time of the check has the caller and the target
\* user as its two ends; rows with a third user never lead to 403, also when
\* the caller looks up its own location or profile.
C19_PairwiseBlockCheck ==
    Looked =>
       (resp.code = 403
          <=> BlockBetween(resp.seen, Authenticate(resp.header), resp.userId))

\* the step answers a block request
BlockAnswered == nops' # nops /\ resp'.op = "block"

\* C20: a block request whose blockedUserId is the caller's own id is
\* answered 400 and leaves the blocks table as it was, and no state reached
\* through block and unblock requests has a row whose blocker is its blocked
\* user.
C20_NoSelfBlock ==
    [][/\ (/\ BlockAnswered
           /\ Authenticate(resp'.header) # NoUser
           /\ resp'.blockedUserId = Authenticate(resp'.header))
            => (resp'.code = 400 /\ blocks' = blocks)
       /\ \A b \in blocks \cup blocks' : b[1] # b[2]]_vars

\* C20 witness: u1's request to block u1 was answered 400 "Cannot block
\* yourself" and the table holds no row from u1 to u1.
C20_Witness ==
    /\ resp.op = "block" /\ resp.code = 400
    /\ resp.error = "Cannot block yourself"
    /\ resp.blockedUserId = Authenticate(resp.header)
    /\ <<resp.blockedUserId, resp.blockedUserId>> \notin blocks

-----------------------------------------------------------------------------
(* The sweep's update against the rows as they are when it is written *)

\* the step is the update of a sweep and the update succeeds
SweepUpdates ==
    /\ calls.sweep.pc = "update"
    /\ calls'.sweep.pc = "idle"
    /\ resp'.op = "sweep" /\ resp'.code = 200

\* the step sets u, not offline before it, to offline
Demoted(u) ==
    /\ u \in DOMAIN users /\ u \in DOMAIN users'
    /\ users[u].presence_status # "offline"
    /\ users'[u].presence_status = "offline"

\* C24: whatever heartbeats and status requests ran between the select and
\* the update of a sweep, the update sets to offline no user whose last
\* activity is, at the time of the update, at most 60 s old.
C24_SweepNeverDemotesFresh ==
    [][SweepUpdates =>
         \A u \in DOMAIN users :
            Demoted(u) =>
               /\ users[u].last_active_at # NoTime
               /\ now - users[u].last_active_at > StaleAfter]_vars

-----------------------------------------------------------------------------
(* Presence as GET /profile/:userId shows it *)

\* the last answer is the profile of a user read by another user
ProfileOfAnother ==
    /\ resp.op = "lookup" /\ resp.kind = "profile" /\ resp.code = 200
    /\ Authenticate(resp.header) # resp.userId
    /\ Len(resp.data) = 1

\* C23: a profile that GET /profile/:userId returns to another user does not
\* say online when the user's last activity is more than 120 s before the
\* read (the nearby request filters by the same window, C6).
C23_OnlineOnlyWhenFresh ==
    ProfileOfAnother =>
       LET row == resp.data[1]
       IN  (row.presence_status = "online" /\ row.last_active_at # NoTime)
             => row.last_active_at >= resp.at - OnlineWindow

-----------------------------------------------------------------------------
(* What a successful account deletion leaves in the store *)

\* the step answers an account deletion with success
DeletionSucceeds ==
    /\ calls.deletion.pc = "auth"
    /\ resp'.op = "delete account" /\ resp'.code = 200

\* the rows of userId that were stored before any request was made
StoredBefore(userId) ==
    {i \in 1..Len(InitLocations) : InitLocations[i].user_id = userId}

\* an account deletion answered with success has removed the auth user
AuthUserDeleted ==
    [][DeletionSucceeds => calls.deletion.userId \notin auth']_vars

\* an account deletion answered with success has removed the location rows
\* of the user that were stored before the request
StoredLocationsDeleted ==
    [][DeletionSucceeds =>
         \A i \in StoredBefore(calls.deletion.userId) :
            \A k \in 1..Len(locations') :
               locations'[k] # InitLocations[i]]_vars

\* C22: when an account deletion of user U is answered with success, the
\* store has no users row of U and none of the location rows of U that were
\* stored before the request, and the auth user of U is deleted: none of
\* the handler's deletes has failed without an error answer.
C22_DeletionCascades ==
    [][DeletionSucceeds =>
         LET userId == calls.deletion.userId
         IN  /\ userId \notin DOMAIN users'
             /\ userId \notin auth'
             /\ \A i \in StoredBefore(userId) :
                   \A k \in 1..Len(locations') :
                      locations'[k] # InitLocations[i]]_vars

-----------------------------------------------------------------------------
(* POST /cleanup/messages and GET /cleanup/status.  Both call the stored   *)
(* procedure delete_old_messages; the answer records whether the call was  *)
(* made.                                                                   *)

\* process.env.CLEANUP_SECRET || process.env.SUPABASE_SERVICE_ROLE_KEY
expectedSecret == "secret"

\* an absent header or body field
NoSecret == ""

\* a request without a body
NoBody == [present |-> FALSE, secret |-> NoSecret]

CleanupRequestBody(secret) == [present |-> TRUE, secret |-> secret]

CleanupResponse(op, code, error, body, header, invoked) ==
    [op |-> op, code |-> code, error |-> error, at |-> now, body |-> body,
     header |-> header, invoked |-> invoked]

\* body.secret || request.headers['x-cleanup-secret']
Secret(body, header) == IF body.secret # NoSecret THEN body.secret ELSE header

\* body.secret of an undefined body throws, which the catch answers with
\* 500; then the check of the secret, the call and its error
CleanupMessages(body, header, ok) ==
    LET secret == Secret(body, header)
        answer(code, error, invoked) ==
            resp' = CleanupResponse("cleanup messages", code, error, body,
                                    header, invoked)
    IN  /\ IF ~body.present THEN answer(500, "Internal server error", FALSE)
           ELSE IF secret = NoSecret \/ secret # expectedSecret
           THEN answer(401, "Unauthorized", FALSE)
           ELSE IF ~ok THEN answer(500, "Failed to delete old messages", TRUE)
           ELSE answer(200, "", TRUE)
        /\ UNCHANGED <<store, now, nearby, nops, rank, auth, calls,
                       truncation, chat>>
        /\ held' = HeldNext

\* the call, unconditionally; its error is reported as status 'error'
CleanupStatus(body, header, ok) ==
    /\ resp' = CleanupResponse("cleanup status", 200,
                               IF ok THEN "" ELSE "error", body, header, TRUE)
    /\ UNCHANGED <<store, now, nearby, nops, rank, auth, calls, truncation, chat>>
    /\ held' = HeldNext

-----------------------------------------------------------------------------
(* The cleanup endpoints for messages under every combination of body and  *)
(* header secret                                                           *)

Secrets == {NoSecret, expectedSecret, "guess"}

CleanupRequests ==
    {[body |-> b, header |-> h, ok |-> ok] :
       b \in {NoBody} \cup {CleanupRequestBody(s) : s \in Secrets},
       h \in Secrets, ok \in BOOLEAN}

NextCleanup ==
    \/ \E r \in CleanupRequests : CleanupMessages(r.body, r.header, r.ok)
    \/ \E r \in CleanupRequests : CleanupStatus(r.body, r.header, r.ok)
    \/ Tick

SpecCleanup == Init /\ [][NextCleanup]_vars

-----------------------------------------------------------------------------
(* Properties of the cleanup of messages *)

\* the request of the last answer went to a cleanup endpoint for messages
CleanupAnswered == resp.op \in {"cleanup messages", "cleanup status"}

\* the request has the expected secret in its header or in its body
CarriesSecret ==
    resp.header = expectedSecret
      \/ (resp.body.present /\ resp.body.secret = expectedSecret)

\* POST /cleanup/messages alone calls the procedure only for a request that
\* has the secret
MessagesEndpointProtected ==
    (resp.op = "cleanup messages" /\ resp.invoked) => CarriesSecret

\* a request to POST /cleanup/messages without the secret is answered 401,
\* a request without a body included
WithoutSecretUnauthorized ==
    (resp.op = "cleanup messages" /\ ~CarriesSecret) => resp.code = 401

\* C21: of the requests to the cleanup endpoints for messages, only those
\* that have the expected secret in the header or in the body make the
\* handler call delete_old_messages, and a request to POST /cleanup/messages
\* that has a body and not the secret is answered 401.
C21_DeletionNeedsSecret ==
    CleanupAnswered =>
       /\ resp.invoked => CarriesSecret
       /\ (resp.op = "cleanup messages" /\ resp.body.present /\ ~CarriesSecret)
             => resp.code = 401

-----------------------------------------------------------------------------
(* The requests of one user, u1, whom u3 has blocked: unblock, block,      *)
(* nearby, heartbeat, and the deletion of the own account                  *)

OwnRequests(requests) == {r \in requests : r.header = Bearer("u1")}

OwnUnblockRequests ==
    {BlockRequest(Bearer("u1"), v, TRUE, ok) :
       v \in UserIds \cup {NoId}, ok \in BOOLEAN}

NextOwn ==
    \/ \E r \in OwnUnblockRequests :
          Unblock(r.header, r.blockedUserId, r.okWrite)
    \/ \E r \in OwnRequests(BlockRequests) :
          Block(r.header, r.blockedUserId, r.okRead, r.okWrite)
    \/ \E r \in OwnRequests(HeartbeatRequests) :
          Heartbeat(r.header, r.userId, r.presenceStatus, r.ok)
    \/ \E req \in OwnRequests(DiscoveryRequests) : NearbyStart(req)
    \/ \E ok \in BOOLEAN : NearbyReadBlocks(ok)
    \/ \E ok \in BOOLEAN : NearbyReadUsers(ok)
    \/ \E ok \in BOOLEAN : NearbyReadLocations(ok)
    \/ DeleteStart(Bearer("u1"), TRUE)
    \/ \E ok \in BOOLEAN : DeleteLocations(ok)
    \/ \E ok \in BOOLEAN : DeleteBlocks(ok)
    \/ \E ok \in BOOLEAN : DeleteUser(ok)
    \/ \E ok \in BOOLEAN : DeleteAuth(ok)
    \/ Tick

SpecOwn == Init /\ [][NextOwn]_vars

-----------------------------------------------------------------------------
(* Properties of unblock *)

\* the step answers an unblock request of an authenticated caller
UnblockAnswered ==
    /\ nops' # nops /\ resp'.op = "unblock"
    /\ Authenticate(resp'.header) # NoUser

\* an unblock request answered 200 removes the row (caller blocked target)
\* if there is one and no other row; answered otherwise it removes no row;
\* and it is answered 200 whenever the store's delete succeeds, whether or
\* not the row was there
UnblockRemovesOwnRowOnly ==
    [][UnblockAnswered =>
         LET row == BlockRow(Authenticate(resp'.header), resp'.blockedUserId)
         IN  /\ resp'.code \in {200, 500}
             /\ blocks' = IF resp'.code = 200 THEN blocks \ {row} ELSE blocks
             /\ row \notin blocks => blocks' = blocks]_vars

\* no request of u1 is being processed
OwnRequestsAnswered ==
    /\ calls.deletion.pc \in {"idle", "done"}
    /\ nearby.pc = "idle"

\* a nearby answer to u1 whose reads succeeded does not list u3
BlockerStaysInvisible ==
    (Listed /\ resp.failed = {} /\ resp.userId = "u1") => "u3" \notin Returned

\* C29: after any sequence of requests by u1 alone, while u1 has a users
\* row, the block of u3 against u1 is still stored, and a nearby answer to
\* u1 whose reads succeeded does not list u3.
C29_BlockOfOthersSurvives ==
    /\ (OwnRequestsAnswered /\ "u1" \in DOMAIN users)
          => BlockRow("u3", "u1") \in blocks
    /\ BlockerStaysInvisible

-----------------------------------------------------------------------------
(* Fixes whose recorded_at is not the time of the batch.  The handler       *)
(* stores loc.recordedAt as the client sent it; u2's last batch, 300 s     *)
(* before T0, carried a fix dated one hour after T0.  u2 still sends       *)
(* heartbeats.                                                             *)

InitAheadUsers ==
    {[u \in UserIds |->
        CASE u = "u2" -> UserRow("online", T0 - 30)
          [] u = "u1" -> UserRow("online", T0 - 119)
          [] OTHER -> r] :
     r \in {UserRow("online", T0 - 50), UserRow("offline", T0 - 50)}}

InitAheadLocations ==
    <<LocationRow("u2", 0, 1000, T0 + 3600, T0 - 300),
      LocationRow("u3", 0, 0, T0 - 200, T0 - 200),
      LocationRow("u1", 0, 0, T0 - 5, T0 - 5)>>

AheadBatchRequests ==
    {BatchRequest(Bearer(u), u, Array(<<LocationData(0, 1000, t)>>), TRUE, TRUE) :
       u \in {"u2", "u3"}, t \in {T0 + 3600, T0, T0 - 301}}

InitAhead ==
    /\ users \in InitAheadUsers
    /\ blocks = {}
    /\ locations = InitAheadLocations
    /\ now = T0
    /\ nearby = Idle
    /\ held = {}
    /\ resp = NoResponse
    /\ nops = 0
    /\ rank = NoRank
    /\ auth = UserIds
    /\ calls = NoCalls
    /\ truncation = NoTruncation
    /\ NoChat

NextAhead ==
    \/ \E req \in OwnRequests(DiscoveryRequests) : NearbyStart(req)
    \/ \E ok \in BOOLEAN : NearbyReadBlocks(ok)
    \/ \E ok \in BOOLEAN : NearbyReadUsers(ok)
    \/ \E ok \in BOOLEAN : NearbyReadLocations(ok)
    \/ \E r \in AheadBatchRequests :
          LocationBatch(r.header, r.userId, r.locations, r.okUser, r.okInsert)
    \/ Tick

SpecAhead == InitAhead /\ [][NextAhead]_vars

-----------------------------------------------------------------------------
(* Properties of the age of fixes *)

\* the rows of u that a batch stored within the 300 s before t
StoredWithin(table, u, t) ==
    {i \in 1..Len(table) :
        /\ table[i].user_id = u
        /\ table[i].created_at >= t - LocationWindow}

\* C25: every user in the list of a nearby answer has a fix that a batch
\* stored at most 300 s before the request read the locations, whatever
\* recorded_at the batch gave it.
C25_FixFreshInRealTime ==
    (Listed /\ resp.failed = {}) =>
       \A u \in Returned :
          StoredWithin(resp.seen.locations, u, resp.seen.tLocations) # {}

-----------------------------------------------------------------------------
(* POST /locations/batch as the two store calls it makes: the select of    *)
(* the users row, then the insert.  Other requests run between the two.    *)

\* Authentication, the checks of the body and the existence check; a
\* request that passes goes on to the insert.
BatchVerify(h, userId, locs, okUser) ==
    LET verified == Authenticate(h)
        answer(code, error) ==
            /\ resp' = BatchResponse(code, error, h, userId, locs, 0)
            /\ UNCHANGED calls
    IN  /\ calls.batch.pc = "idle"
        /\ nops < MaxOps
        /\ nops' = nops + 1
        /\ Len(locations) + Len(locs.items) <= MaxLocations
        /\ IF verified = NoUser
           THEN answer(401, IF ~h.present \/ h.scheme # "Bearer"
                            THEN "Unauthorized" ELSE "Invalid token")
           ELSE IF userId # verified THEN answer(403, "Forbidden")
           ELSE IF ~locs.isArray \/ Len(locs.items) = 0
           THEN answer(400, "Invalid locations data")
           ELSE IF ~okUser THEN answer(500, "Failed to verify user")
           ELSE IF userId \notin DOMAIN users THEN answer(404, "User not found")
           ELSE IF locs.holes # {} THEN answer(500, "Internal server error")
           ELSE /\ calls' = [calls EXCEPT !.batch =
                               [pc |-> "insert", header |-> h,
                                userId |-> userId, locations |-> locs,
                                processedLocations |->
                                   ProcessedLocations(userId, locs, now)]]
                /\ UNCHANGED resp
        /\ UNCHANGED <<store, now, nearby, rank, auth, truncation, chat>>
        /\ held' = HeldNext

\* The insert of the rows built after the existence check
BatchInsert(okInsert) ==
    LET batch == calls.batch
        answer(code, error, inserted) ==
            resp' = BatchResponse(code, error, batch.header, batch.userId,
                                  batch.locations, inserted)
    IN  /\ batch.pc = "insert"
        /\ IF okInsert
           THEN /\ locations' = locations \o batch.processedLocations
                /\ answer(200, "", Len(batch.processedLocations))
           ELSE /\ answer(500, "Failed to save locations", 0)
                /\ UNCHANGED locations
        /\ calls' = [calls EXCEPT !.batch = NoCall]
        /\ UNCHANGED <<users, blocks, now, nearby, nops, rank, auth, truncation, chat>>
        /\ held' = HeldNext

-----------------------------------------------------------------------------
(* Batches and account deletions of the same users, step by step.  The     *)
(* delete of the locations succeeds here; what its failure leaves behind   *)
(* is seen under SpecAccount.                                              *)

NextOrphan ==
    \/ \E r \in BatchRequests :
          BatchVerify(r.header, r.userId, r.locations, r.okUser)
    \/ \E ok \in BOOLEAN : BatchInsert(ok)
    \/ \E r \in DeleteRequests : DeleteStart(r.header, r.confirmation)
    \/ DeleteLocations(TRUE)
    \/ \E ok \in BOOLEAN : DeleteBlocks(ok)
    \/ \E ok \in BOOLEAN : DeleteUser(ok)
    \/ \E ok \in BOOLEAN : DeleteAuth(ok)
    \/ Tick

SpecOrphan == Init /\ [][NextOrphan]_vars

-----------------------------------------------------------------------------
(* Properties of the owner of a fix *)

\* the rows whose user_id has no users row
Orphans(table, usersTable) ==
    {i \in 1..Len(table) : table[i].user_id \notin DOMAIN usersTable}

-----------------------------------------------------------------------------
(* POST /conversations.  conversations maps an id to its row, participants *)
(* holds the pairs <<conversation_id, user_id>>, messages the rows in the  *)
(* order of their insertion.                                               *)

ConversationIds == {"c1", "c2", "c3", "c4"}

ConversationRow(terminated) == [is_terminated |-> terminated]

NoConversation == ""

CreateResponse(code, error, h, participantIds, failed, conversationId) ==
    [op |-> "create conversation", code |-> code, error |-> error, at |-> now,
     header |-> h, participantIds |-> participantIds, failed |-> failed,
     conversationId |-> conversationId]

\* [...new Set([verified.userId, ...participantIds])]
AllParticipants(userId, participantIds) ==
    {userId} \cup {participantIds.items[i] : i \in 1..Len(participantIds.items)}

\* the loop: for every participant other than the creator, the block rows
\* with the creator at one end and the participant at one end; the error of
\* the read is not looked at, a failed read finds nothing
ParticipantsBlocked(table, userId, allParticipants, failed) ==
    \E participantId \in allParticipants \ {userId} :
       participantId \notin failed
         /\ BlockData(table, userId, participantId) # {}

\* .from('conversations').insert({ is_terminated: false })
ConversationInserted(table, id) ==
    [c \in DOMAIN table \cup {id} |->
        IF c = id THEN ConversationRow(FALSE) ELSE table[c]]

\* failed: the participants whose block read fails
CreateConversation(h, participantIds, failed, okConv, okPart) ==
    LET verified == Authenticate(h)
        allParticipants == AllParticipants(verified, participantIds)
        id == CHOOSE c \in ConversationIds \ DOMAIN conversations : TRUE
        answer(code, error, conversationId) ==
            resp' = CreateResponse(code, error, h, participantIds, failed,
                                   conversationId)
    IN  /\ nops < MaxOps
        /\ nops' = nops + 1
        /\ ConversationIds \ DOMAIN conversations # {}
        /\ IF verified = NoUser
           THEN /\ answer(401, IF ~h.present \/ h.scheme # "Bearer"
                               THEN "Unauthorized" ELSE "Invalid token",
                          NoConversation)
                /\ UNCHANGED <<conversations, participants>>
           ELSE IF ~participantIds.isArray \/ Len(participantIds.items) = 0
           THEN /\ answer(400, "Invalid participant IDs", NoConversation)
                /\ UNCHANGED <<conversations, participants>>
           ELSE IF ParticipantsBlocked(blocks, verified, allParticipants, failed)
           THEN /\ answer(403, "Cannot create conversation with blocked user",
                          NoConversation)
                /\ UNCHANGED <<conversations, participants>>
           ELSE IF ~okConv
           THEN /\ answer(500, "Failed to create conversation", NoConversation)
                /\ UNCHANGED <<conversations, participants>>
           ELSE /\ conversations' = ConversationInserted(conversations, id)
                /\ IF okPart
                   THEN /\ participants' = participants \cup
                                 {<<id, u>> : u \in allParticipants}
                        /\ answer(200, "", id)
                   ELSE /\ answer(500, "Failed to add participants",
                                  NoConversation)
                        /\ UNCHANGED participants
        /\ UNCHANGED <<store, now, nearby, rank, auth, calls, truncation,
                       messages>>
        /\ held' = HeldNext

-----------------------------------------------------------------------------
(* POST /conversations/:id/messages and POST /conversations/:id/terminate, *)
(* one store call per step                                                 *)

\* body.trim() on a text given as its characters
RECURSIVE TrimEnd(_)
TrimEnd(text) ==
    IF text # <<>> /\ text[Len(text)] = " "
    THEN TrimEnd(SubSeq(text, 1, Len(text) - 1)) ELSE text

Trim(text) == TrimEnd(TrimStart(text))

MessageRow(conversationId, senderId, body, t) ==
    [conversation_id |-> conversationId, sender_id |-> senderId,
     body |-> body, created_at |-> t]

SendResponse(code, error, h, conversationId, body) ==
    [op |-> "send message", code |-> code, error |-> error, at |-> now,
     header |-> h, conversationId |-> conversationId, body |-> body]

\* .from('conversation_participants').select('*')
\*   .eq('conversation_id', conversationId).eq('user_id', userId).single()
Participant(table, conversationId, userId) ==
    {row \in table : row[1] = conversationId /\ row[2] = userId}

\* Authentication, the check of the body and the participant check
SendStart(h, conversationId, body, okPart) ==
    LET verified == Authenticate(h)
        answer(code, error) ==
            /\ resp' = SendResponse(code, error, h, conversationId, body)
            /\ UNCHANGED calls
    IN  /\ calls.send.pc = "idle"
        /\ nops < MaxOps
        /\ nops' = nops + 1
        /\ IF verified = NoUser
           THEN answer(401, IF ~h.present \/ h.scheme # "Bearer"
                            THEN "Unauthorized" ELSE "Invalid token")
           ELSE IF Len(body) = 0 \/ Len(Trim(body)) = 0
           THEN answer(400, "Message body is required")
           ELSE IF ~okPart \/ Participant(participants, conversationId,
                                          verified) = {}
           THEN answer(403, "Not a participant of this conversation")
           ELSE /\ calls' = [calls EXCEPT !.send =
                               [pc |-> "flag", header |-> h,
                                conversationId |-> conversationId,
                                userId |-> verified, body |-> body]]
                /\ UNCHANGED resp
        /\ UNCHANGED <<store, now, nearby, rank, auth, truncation, chat>>
        /\ held' = HeldNext

\* The read of is_terminated.  Its error is not looked at: without a row
\* conversation?.is_terminated is undefined and the request goes on.
SendReadFlag(ok) ==
    LET send == calls.send
        found == ok /\ send.conversationId \in DOMAIN conversations
    IN  /\ send.pc = "flag"
        /\ IF found /\ conversations[send.conversationId].is_terminated
           THEN /\ resp' = SendResponse(400, "Conversation is terminated",
                                        send.header, send.conversationId,
                                        send.body)
                /\ calls' = [calls EXCEPT !.send = NoCall]
           ELSE /\ calls' = [calls EXCEPT !.send.pc = "insert"]
                /\ UNCHANGED resp
        /\ UNCHANGED <<store, now, nearby, nops, rank, auth, truncation, chat>>
        /\ held' = HeldNext

\* The insert of the message
SendInsert(ok) ==
    LET send == calls.send
        answer(code, error) ==
            resp' = SendResponse(code, error, send.header,
                                 send.conversationId, send.body)
    IN  /\ send.pc = "insert"
        /\ IF ok
           THEN /\ messages' = Append(messages,
                                 MessageRow(send.conversationId, send.userId,
                                            Trim(send.body), now))
                /\ answer(200, "")
           ELSE /\ answer(500, "Failed to send message")
                /\ UNCHANGED messages
        /\ calls' = [calls EXCEPT !.send = NoCall]
        /\ UNCHANGED <<store, now, nearby, nops, rank, auth, truncation,
                       conversations, participants>>
        /\ held' = HeldNext

TerminateResponse(code, error, h, conversationId) ==
    [op |-> "terminate", code |-> code, error |-> error, at |-> now,
     header |-> h, conversationId |-> conversationId]

\* .from('messages').delete().eq('conversation_id', conversationId)
MessagesDeleted(table, conversationId) ==
    SelectSeq(table, LAMBDA row : row.conversation_id # conversationId)

\* .from('conversations').update({ is_terminated: true }).eq('id', id)
Terminated(table, conversationId) ==
    [c \in DOMAIN table |->
        IF c = conversationId THEN ConversationRow(TRUE) ELSE table[c]]

\* Authentication and the participant check, whose error is not looked at.
\* One conversation is terminated per behaviour.
TerminateStart(h, conversationId, okPart) ==
    LET verified == Authenticate(h)
        answer(code, error) ==
            /\ resp' = TerminateResponse(code, error, h, conversationId)
            /\ UNCHANGED calls
    IN  /\ calls.terminate.pc = "idle"
        /\ IF verified = NoUser
           THEN answer(401, IF ~h.present \/ h.scheme # "Bearer"
                            THEN "Unauthorized" ELSE "Invalid token")
           ELSE IF ~okPart \/ Participant(participants, conversationId,
                                          verified) = {}
           THEN answer(403, "Not a participant of this conversation")
           ELSE /\ calls' = [calls EXCEPT !.terminate =
                               [pc |-> "messages", header |-> h,
                                conversationId |-> conversationId]]
                /\ UNCHANGED resp
        /\ UNCHANGED <<store, now, nearby, nops, rank, auth, truncation, chat>>
        /\ held' = HeldNext

\* The delete of the messages; msgError is logged and the request goes on
TerminateMessages(ok) ==
    LET terminate == calls.terminate
    IN  /\ terminate.pc = "messages"
        /\ messages' = IF ok THEN MessagesDeleted(messages,
                                                  terminate.conversationId)
                       ELSE messages
        /\ calls' = [calls EXCEPT !.terminate =
                        [pc |-> "conversation", header |-> terminate.header,
                         conversationId |-> terminate.conversationId,
                         msgError |-> ~ok]]
        /\ UNCHANGED <<store, now, nearby, resp, nops, rank, auth, truncation,
                       conversations, participants>>
        /\ held' = HeldNext

\* The update of is_terminated and the answer
TerminateConversation(ok) ==
    LET terminate == calls.terminate
        answer(code, error) ==
            /\ resp' = TerminateResponse(code, error, terminate.header,
                                         terminate.conversationId)
            /\ calls' = [calls EXCEPT !.terminate =
                           [pc |-> "done", code |-> code,
                            conversationId |-> terminate.conversationId,
                            msgError |-> terminate.msgError]]
    IN  /\ terminate.pc = "conversation"
        /\ IF ok
           THEN /\ conversations' = Terminated(conversations,
                                               terminate.conversationId)
                /\ answer(200, "")
           ELSE /\ answer(500, "Failed to terminate conversation")
                /\ UNCHANGED conversations
        /\ UNCHANGED <<store, now, nearby, nops, rank, auth, truncation,
                       participants, messages>>
        /\ held' = HeldNext

-----------------------------------------------------------------------------
(* Conversations: c1 of u1 and u2 with one message, c2 of u2 and u3,       *)
(* terminated; u3 has blocked u1.  The read of is_terminated succeeds in   *)
(* this specification.                                                     *)

Hi == <<"h", "i">>

InitConversations ==
    [c \in {"c1", "c2"} |-> ConversationRow(c = "c2")]

InitParticipants ==
    {<<"c1", "u1">>, <<"c1", "u2">>, <<"c2", "u2">>, <<"c2", "u3">>}

InitMessages == <<MessageRow("c1", "u2", Hi, T0 - 20)>>

CreateRequests ==
    {[header |-> Bearer(u), participantIds |-> Array(ids), failed |-> {},
      okConv |-> TRUE, okPart |-> TRUE] :
       u \in UserIds,
       ids \in {<<"u1">>, <<"u2">>, <<"u3">>, <<"u1", "u3">>, <<"u2", "u2">>}}
    \cup {[header |-> Bearer("u1"), participantIds |-> ids, failed |-> f,
           okConv |-> okConv, okPart |-> okPart] :
            ids \in {Array(<<"u2">>), Array(<<"u3">>), Array(<<>>), NotAnArray},
            f \in {{}, {"u3"}}, okConv \in BOOLEAN, okPart \in BOOLEAN}
    \cup {[header |-> NoHeader, participantIds |-> Array(<<"u2">>),
           failed |-> {}, okConv |-> TRUE, okPart |-> TRUE]}

SendRequests ==
    {[header |-> Bearer(u), conversationId |-> c, body |-> b, okPart |-> TRUE] :
       u \in UserIds, c \in {"c1", "c2"},
       b \in {Hi, <<" ", "h", "i", " ">>, <<" ">>, <<>>}}
    \cup {[header |-> Bearer("u1"), conversationId |-> "c1", body |-> Hi,
           okPart |-> FALSE],
          [header |-> NoHeader, conversationId |-> "c1", body |-> Hi,
           okPart |-> TRUE]}

TerminateRequests ==
    {[header |-> Bearer(u), conversationId |-> c, okPart |-> TRUE] :
       u \in UserIds, c \in {"c1", "c2"}}
    \cup {[header |-> Bearer("u1"), conversationId |-> "c1", okPart |-> FALSE],
          [header |-> NoHeader, conversationId |-> "c1", okPart |-> TRUE]}

InitChat ==
    /\ users \in InitUsers
    /\ blocks = InitBlocks
    /\ locations = InitLocations
    /\ now = T0
    /\ nearby = Idle
    /\ held = {}
    /\ resp = NoResponse
    /\ nops = 0
    /\ rank = NoRank
    /\ auth = UserIds
    /\ calls = NoCalls
    /\ truncation = NoTruncation
    /\ conversations = InitConversations
    /\ participants = InitParticipants
    /\ messages = InitMessages

NextChat ==
    \/ \E r \in CreateRequests :
          CreateConversation(r.header, r.participantIds, r.failed, r.okConv,
                             r.okPart)
    \/ \E r \in SendRequests :
          SendStart(r.header, r.conversationId, r.body, r.okPart)
    \/ SendReadFlag(TRUE)
    \/ \E ok \in BOOLEAN : SendInsert(ok)
    \/ \E r \in TerminateRequests :
          TerminateStart(r.header, r.conversationId, r.okPart)
    \/ \E ok \in BOOLEAN : TerminateMessages(ok)
    \/ \E ok \in BOOLEAN : TerminateConversation(ok)
    \/ Tick

SpecChat == InitChat /\ [][NextChat]_vars

-----------------------------------------------------------------------------
(* Properties of conversations *)

\* the step answers a create request of an authenticated caller that lists
\* at least one participant, and the block reads of the request succeeded
CreateAnswered ==
    /\ nops' # nops /\ resp'.op = "create conversation"
    /\ Authenticate(resp'.header) # NoUser
    /\ NonEmptyArray(resp'.participantIds)
    /\ resp'.failed = {}

\* nothing was created
NothingCreated ==
    conversations' = conversations /\ participants' = participants

\* a create request is rejected when the creator and a listed participant
\* have a block row
CreatorPairsChecked ==
    [][CreateAnswered =>
         LET creator == Authenticate(resp'.header)
             all == AllParticipants(creator, resp'.participantIds)
         IN  (\E p \in all \ {creator} : BlockBetween(blocks, creator, p))
               => (resp'.code = 403 /\ NothingCreated)]_vars

\* C28: a create request is answered 403 and creates no conversation and no
\* participant row when a block row exists, in either direction, between
\* any two of its participants, the creator or not.
C28_BlocksBetweenAnyParticipants ==
    [][CreateAnswered =>
         LET all == AllParticipants(Authenticate(resp'.header),
                                    resp'.participantIds)
         IN  (\E p \in all, q \in all : p # q /\ BlockBetween(blocks, p, q))
               => (resp'.code = 403 /\ NothingCreated)]_vars

\* a terminate request has been answered with success
TerminateSucceeded ==
    calls.terminate.pc = "done" /\ calls.terminate.code = 200

\* the messages of the conversation
MessagesOf(table, conversationId) ==
    {i \in 1..Len(table) : table[i].conversation_id = conversationId}

\* after a terminate request answered with success the conversation is
\* terminated
TerminatedStaysTerminated ==
    TerminateSucceeded =>
       conversations[calls.terminate.conversationId].is_terminated

\* after a terminate request answered with success the conversation has no
\* messages, also when the delete of the messages failed
TerminatedIsEmpty ==
    TerminateSucceeded =>
       MessagesOf(messages, calls.terminate.conversationId) = {}

\* C27: after a terminate request whose delete of the messages succeeded has
\* been answered with success, the conversation is terminated and holds no
\* message in any later state, whatever send requests of its participants
\* were in progress.
C27_TerminatedStaysEmpty ==
    (TerminateSucceeded /\ ~calls.terminate.msgError) =>
       /\ conversations[calls.terminate.conversationId].is_terminated
       /\ MessagesOf(messages, calls.terminate.conversationId) = {}

====
